---------------------------- MODULE Spec2Model ----------------------------
(***************************************************************************)
(* composer-json-modifier: the package-pattern engine                      *)
(* (src/src/modify_composer_json.rs) and the directive applier             *)
(* (src/src/modify.rs, src/src/parse_handler.rs, src/src/fs.rs).           *)
(*                                                                         *)
(* Strings are sequences of one-character strings.  A compiled regex is    *)
(* represented by its text (what Regex::as_str returns); matching          *)
(* interprets that text with the semantics of the regex crate for the      *)
(* syntax that can occur here: literals, `.`, `*`, `+`, `|`, `^`, `$` and  *)
(* an opening `(` (never closed, since `)` is outside the input sets).     *)
(***************************************************************************)
EXTENDS Integers, Sequences, FiniteSets

VARIABLES
  raw,           \* the raw pattern text given to PackagePattern::new
  cand,          \* the candidate text, built into the PackagePattern matches takes
  p,             \* the pattern: None, Ok (pattern, regex), Err or Moved
  package,       \* the candidate pattern: None, Ok, Err or Moved (into matches)
  res,           \* the results matches has returned so far
  rx,            \* the Regex read from the pattern (Into<Regex>), if any
  composerFile,  \* the path given as composer_json_file_name: kind and content
  modifyFile,    \* the path given as modify_file_name: kind and content
  dryRun,        \* handle_modify's dry_run argument
  pc,            \* handle_modify's position
  c,             \* handle_modify's c: the loaded ComposerJson
  m,             \* handle_modify's m: the loaded ModifyComposerJson
  d,             \* handle_modify's d: what remove returned
  out,           \* the lines printed to stdout
  ret,           \* what handle_modify or handle_parse returned
  str,           \* the String the pattern was converted into (Into<String>), if any
  json,          \* the JSON text the pattern was serialized to, if any
  back,          \* what deserializing that JSON text gave, if anything
  printFlag,     \* handle_parse's print argument
  errOut,        \* the lines printed to stderr
  cli,           \* main's parsed command line: --config and the subcommand
  reads,         \* the paths whose content fs::read_to_string has read
  writes,        \* the paths a file was written to
  once,          \* what remove returned for the arguments c, m and dryRun, if called
  twice          \* what remove returned for that manifest and the same m, if called

patternVars == <<raw, cand, p, package, res, rx>>

modifyVars == <<composerFile, modifyFile, dryRun, pc, c, m, d, out, ret>>

serdeVars == <<str, json, back>>

parseVars == <<printFlag, errOut, cli>>

fsVars == <<reads, writes>>

removeVars == <<once, twice>>

vars ==
  <<raw, cand, p, package, res, rx, composerFile, modifyFile, dryRun, pc, c, m, d, out, ret,
    str, json, back, printFlag, errOut, cli, reads, writes, once, twice>>

(***************************************************************************)
(* Bounds and input sets                                                   *)
(***************************************************************************)
MaxPatLen == 3

MaxCandLen == 2

\* The enumerated characters: a plain literal, the wildcard, and characters
\* the regex syntax gives a meaning (`.`, `+`, `|`, `(`).  Further plain
\* literals (`/`, letters, `-`, a line feed) occur in the named inputs.
Alphabet == {"a", "*", ".", "+", "|", "("}

RECURSIVE Strings(_, _)
Strings(A, n) ==
  IF n = 0 THEN {<<>>}
  ELSE LET shorter == Strings(A, n - 1)
       IN  shorter \cup {Append(s, ch) : s \in {t \in shorter : Len(t) = n - 1}, ch \in A}

\* The inputs of the unit tests and of the scenarios, beside the enumeration.
NamedPatterns ==
  { <<"f","o","o","/","b","a","r">>,
    <<"f","o","o","/","*">>,
    <<"f","o","o","*","*">>,
    <<"f","o","o","*">>,
    <<"a","|","/","*">> }

NamedCandidates ==
  { <<"f","o","o","/","b","a","r">>,
    <<"f","o","o","/">>,
    <<"f","o","o">>,
    <<"f","o","o","/","\n">>,
    <<"f","o","o","/","*">> }

RawInputs == Strings(Alphabet, MaxPatLen) \cup NamedPatterns

CandInputs == Strings(Alphabet, MaxCandLen) \cup NamedCandidates

None == [tag |-> "None"]

\* A command line without --config and without a subcommand.
NoCli == [config |-> None, command |-> None]

Moved == [tag |-> "Moved"]

(***************************************************************************)
(* regex crate: Regex::new and Regex::is_match on the regex text           *)
(***************************************************************************)
IsRepetitionOp(ch) == ch \in {"*", "+"}

\* The alternation branches of a regex text without groups: split at `|`.
RECURSIVE Branches(_)
Branches(t) ==
  IF \A i \in 1..Len(t) : t[i] # "|" THEN <<t>>
  ELSE LET k == CHOOSE i \in 1..Len(t) : t[i] = "|" /\ \A j \in 1..(i - 1) : t[j] # "|"
       IN  <<SubSeq(t, 1, k - 1)>> \o Branches(SubSeq(t, k + 1, Len(t)))

\* A repetition operator at offset i of t has nothing to repeat: it opens
\* the text, an alternation branch or a group.
MissingExpression(t, i) ==
  IsRepetitionOp(t[i]) /\ (i = 1 \/ t[i - 1] \in {"|", "("})

\* Regex::new: a repetition operator with nothing to repeat and an unclosed
\* group are syntax errors.  The parser reports the first error it meets
\* reading the text from the left, and an unclosed group only when it has
\* reached the end of the text.
RegexNew(t) ==
  IF \E i \in 1..Len(t) : MissingExpression(t, i)
    THEN [ok |-> FALSE, err |-> "repetition operator missing expression"]
  ELSE IF \E i \in 1..Len(t) : t[i] = "("
    THEN [ok |-> FALSE, err |-> "unclosed group"]
  ELSE [ok |-> TRUE, text |-> t]

\* Match relations: <<i, j>> says the expression matches s from offset i to j.
Id(s) == {<<i, i>> : i \in 0..Len(s)}

Compose(R, S) == UNION {{<<x[1], y[2]>> : y \in {z \in S : z[1] = x[2]}} : x \in R}

RECURSIVE Plus(_, _)
Plus(R, acc) ==
  LET nxt == acc \cup Compose(acc, R)
  IN  IF nxt = acc THEN acc ELSE Plus(R, nxt)

OneOrMore(R) == Plus(R, R)

ZeroOrMore(R, s) == Id(s) \cup OneOrMore(R)

\* `.` is any character except a line feed; `^` and `$` are the text's ends.
AtomRel(ch, s) ==
  CASE ch = "^" -> {<<0, 0>>}
    [] ch = "$" -> {<<Len(s), Len(s)>>}
    [] ch = "." -> {<<i - 1, i>> : i \in {j \in 1..Len(s) : s[j] # "\n"}}
    [] OTHER    -> {<<i - 1, i>> : i \in {j \in 1..Len(s) : s[j] = ch}}

\* One branch, left to right: acc is the concatenation so far, last the item
\* a following repetition operator applies to.
RECURSIVE ConcatRel(_, _, _, _, _)
ConcatRel(t, i, acc, last, s) ==
  IF i > Len(t) THEN Compose(acc, last)
  ELSE IF t[i] = "*" THEN ConcatRel(t, i + 1, acc, ZeroOrMore(last, s), s)
  ELSE IF t[i] = "+" THEN ConcatRel(t, i + 1, acc, OneOrMore(last), s)
  ELSE ConcatRel(t, i + 1, Compose(acc, last), AtomRel(t[i], s), s)

\* The spans of s the regex text t matches.
MatchSpans(t, s) ==
  LET bs == Branches(t)
  IN  UNION {ConcatRel(bs[b], 1, Id(s), Id(s), s) : b \in 1..Len(bs)}

\* Regex::is_match: an unanchored search, true iff some span matches.
IsMatch(t, s) == MatchSpans(t, s) # {}

(***************************************************************************)
(* PackagePattern                                                          *)
(***************************************************************************)
\* Mutant: `*` written as `.`, one arbitrary character.
RECURSIVE ReplaceStarByDot(_)
ReplaceStarByDot(s) ==
  IF s = <<>> THEN <<>>
  ELSE (IF Head(s) = "*" THEN <<".">> ELSE <<Head(s)>>) \o ReplaceStarByDot(Tail(s))

\* Mutant: only the first `*` is rewritten (replacen(.., 1)).
ReplaceFirstOnly(s) ==
  IF \A i \in 1..Len(s) : s[i] # "*" THEN s
  ELSE LET k == CHOOSE i \in 1..Len(s) : s[i] = "*" /\ \A j \in 1..(i - 1) : s[j] # "*"
       IN  SubSeq(s, 1, k - 1) \o <<".", "*">> \o SubSeq(s, k + 1, Len(s))

\* str::replace("*", ".*")
RECURSIVE Replace(_)
Replace(s) ==
  IF s = <<>> THEN <<>>
  ELSE (IF Head(s) = "*" THEN <<".", "*">> ELSE <<Head(s)>>) \o Replace(Tail(s))

\* Mutant: the closing anchor is left out.
RegexTextNoEnd(pattern) == <<"^">> \o Replace(pattern)

\* format!("^{}$", pattern.replace("*", ".*"))
RegexText(pattern) == <<"^">> \o Replace(pattern) \o <<"$">>

\* PackagePattern::new
PackagePatternNew(pattern) ==
  LET t == RegexText(pattern)
      r == RegexNew(t)
  IN  IF r.ok
        THEN [tag |-> "Ok", pattern |-> pattern, regex |-> r.text]
        ELSE [tag |-> "Err", err |-> r.err]

\* PackagePattern::matches(&self, package: Self)
PackagePatternMatches(self, pkg) == IsMatch(self.regex, pkg.pattern)

\* impl Into<Regex> for PackagePattern
IntoRegex(self) == self.regex

(***************************************************************************)
(* The pattern engine as a state machine: build the pattern and the        *)
(* candidate, match (the candidate is moved into the call), read the regex *)
(***************************************************************************)
InitPattern ==
  /\ raw \in RawInputs
  /\ cand \in CandInputs
  /\ p = None
  /\ package = None
  /\ res = {}
  /\ rx = None
  /\ composerFile = [kind |-> "missing", text |-> None]
  /\ modifyFile = [kind |-> "missing", text |-> None]
  /\ dryRun = FALSE
  /\ pc = "idle"
  /\ c = None
  /\ m = None
  /\ d = None
  /\ out = <<>>
  /\ ret = None
  /\ str = None
  /\ json = None
  /\ back = None
  /\ printFlag = FALSE
  /\ errOut = <<>>
  /\ cli = NoCli
  /\ reads = {}
  /\ writes = {}
  /\ once = None
  /\ twice = None

NewPattern ==
  /\ p.tag \in {"None", "Moved"}
  /\ p' = PackagePatternNew(raw)
  /\ UNCHANGED <<raw, cand, package, res, rx>>
  /\ UNCHANGED modifyVars
  /\ UNCHANGED <<serdeVars, parseVars, fsVars>>
  /\ UNCHANGED removeVars

NewCandidate ==
  /\ package.tag \in {"None", "Moved"}
  /\ package' = PackagePatternNew(cand)
  /\ UNCHANGED <<raw, cand, p, res, rx>>
  /\ UNCHANGED modifyVars
  /\ UNCHANGED <<serdeVars, parseVars, fsVars>>
  /\ UNCHANGED removeVars

Matches ==
  /\ p.tag = "Ok"
  /\ package.tag = "Ok"
  /\ res' = res \cup {PackagePatternMatches(p, package)}
  /\ package' = Moved
  /\ UNCHANGED <<raw, cand, p, rx>>
  /\ UNCHANGED modifyVars
  /\ UNCHANGED <<serdeVars, parseVars, fsVars>>
  /\ UNCHANGED removeVars

ReadRegex ==
  /\ p.tag = "Ok"
  /\ rx = None
  /\ rx' = [tag |-> "Regex", text |-> IntoRegex(p)]
  /\ p' = Moved
  /\ UNCHANGED <<raw, cand, package, res>>
  /\ UNCHANGED modifyVars
  /\ UNCHANGED <<serdeVars, parseVars, fsVars>>
  /\ UNCHANGED removeVars

Next == NewPattern \/ NewCandidate \/ Matches \/ ReadRegex

Spec == InitPattern /\ [][Next]_vars


(***************************************************************************)
(* Values shared by the loaders                                            *)
(***************************************************************************)
Some(x) == [tag |-> "Some", val |-> x]

Ok(x) == [tag |-> "Ok", val |-> x]

Err(kind, msg) == [tag |-> "Err", kind |-> kind, msg |-> msg]

Unit == <<>>

(***************************************************************************)
(* PackagePattern as a String and as JSON (serde_json)                     *)
(***************************************************************************)
\* The characters of a text are one-character strings; a character TLA+
\* cannot write is the token "U+" followed by its code point in hexadecimal.
\* The control characters U+0000..U+001F, by code point.
ControlChars ==
  <<
    "U+0000", "U+0001", "U+0002", "U+0003", "U+0004", "U+0005", "U+0006", "U+0007",
    "U+0008", "\t", "\n", "U+000B", "\f", "\r", "U+000E", "U+000F",
    "U+0010", "U+0011", "U+0012", "U+0013", "U+0014", "U+0015", "U+0016", "U+0017",
    "U+0018", "U+0019", "U+001A", "U+001B", "U+001C", "U+001D", "U+001E", "U+001F" >>

\* The printable ASCII characters U+0020..U+007E, by code point (the grave
\* accent as a token).
Ascii ==
  <<
    " ", "!", "\"", "#", "$", "%", "&", "'", "(", ")", "*", "+", ",", "-", ".", "/",
    "0", "1", "2", "3", "4", "5", "6", "7", "8", "9", ":", ";", "<", "=", ">", "?",
    "@", "A", "B", "C", "D", "E", "F", "G", "H", "I", "J", "K", "L", "M", "N", "O",
    "P", "Q", "R", "S", "T", "U", "V", "W", "X", "Y", "Z", "[", "\\", "]", "^", "_",
    "U+0060", "a", "b", "c", "d", "e", "f", "g", "h", "i", "j", "k", "l", "m", "n", "o",
    "p", "q", "r", "s", "t", "u", "v", "w", "x", "y", "z", "{", "|", "}", "~" >>

HexLower == <<"0", "1", "2", "3", "4", "5", "6", "7", "8", "9", "a", "b", "c", "d", "e", "f">>

HexUpper == <<"0", "1", "2", "3", "4", "5", "6", "7", "8", "9", "A", "B", "C", "D", "E", "F">>

IsControl(ch) == \E i \in 1..32 : ControlChars[i] = ch

ControlCode(ch) == (CHOOSE i \in 1..32 : ControlChars[i] = ch) - 1

IsHex(ch) == \E i \in 1..16 : HexLower[i] = ch \/ HexUpper[i] = ch

\* decode_hex_val
HexVal(ch) == (CHOOSE i \in 1..16 : HexLower[i] = ch \/ HexUpper[i] = ch) - 1

\* The code point n in hexadecimal, with at least width digits.
RECURSIVE HexString(_, _)
HexString(n, width) ==
  IF n < 16 /\ width <= 1 THEN HexUpper[n + 1]
  ELSE HexString(n \div 16, width - 1) \o HexUpper[(n % 16) + 1]

\* char::from_u32 for a code point that is not a surrogate.
CharOf(n) ==
  IF n < 32 THEN ControlChars[n + 1]
  ELSE IF n < 127 THEN Ascii[n - 31]
  ELSE "U+" \o HexString(n, 4)

\* serde_json's format_escaped_str: the quote, the backslash and the control
\* characters are escaped, every other character is written as it is.
RECURSIVE JsonEscape(_)
JsonEscape(s) ==
  IF s = <<>> THEN <<>>
  ELSE (CASE Head(s) = "\""     -> <<"\\", "\"">>
          [] Head(s) = "\\"     -> <<"\\", "\\">>
          [] Head(s) = "U+0008" -> <<"\\", "b">>
          [] Head(s) = "\t"     -> <<"\\", "t">>
          [] Head(s) = "\n"     -> <<"\\", "n">>
          [] Head(s) = "\f"     -> <<"\\", "f">>
          [] Head(s) = "\r"     -> <<"\\", "r">>
          [] IsControl(Head(s)) -> <<"\\", "u", "0", "0",
                                     HexLower[(ControlCode(Head(s)) \div 16) + 1],
                                     HexLower[(ControlCode(Head(s)) % 16) + 1]>>
          [] OTHER              -> <<Head(s)>>) \o JsonEscape(Tail(s))

\* Errors of serde_json, by category; the messages are given without the
\* position and without the value an invalid type was found for.
EofString == Err("Eof", "EOF while parsing a string")

EofValue == Err("Eof", "EOF while parsing a value")

InvalidEscape == Err("Syntax", "invalid escape")

InvalidNumber == Err("Syntax", "invalid number")

LoneSurrogate == Err("Syntax", "lone leading surrogate in hex escape")

EndOfHexEscape == Err("Syntax", "unexpected end of hex escape")

InvalidType(what) == Err("Data", "invalid type: " \o what \o ", expected a string")

\* A value read up to, not including, position next of the text.
Parsed(v, next) == [tag |-> "Ok", val |-> v, next |-> next]

JsonWhitespace == {" ", "\n", "\t", "\r"}

\* Deserializer::parse_whitespace: the first position at or after i that
\* holds no whitespace.
RECURSIVE ParseWhitespace(_, _)
ParseWhitespace(t, i) ==
  IF i <= Len(t) /\ t[i] \in JsonWhitespace THEN ParseWhitespace(t, i + 1) ELSE i

\* The number of bytes of a character in UTF-8: one up to U+007F, two up to
\* U+07FF, three up to U+FFFF, four beyond.
Utf8Len(ch) ==
  IF IsControl(ch) \/ ch = "U+007F" \/ \E i \in 1..95 : Ascii[i] = ch THEN 1
  ELSE IF ch \in {CharOf(n) : n \in 128..2047} THEN 2
  ELSE IF Len(ch) = 6 THEN 3
  ELSE 4

\* The number of bytes of the text from position i on.
RECURSIVE Utf8Bytes(_, _)
Utf8Bytes(t, i) == IF i > Len(t) THEN 0 ELSE Utf8Len(t[i]) + Utf8Bytes(t, i + 1)

\* SliceRead::decode_hex_escape at position i: with fewer than four bytes
\* left the text has ended; the next four bytes have to be hexadecimal
\* digits, which no byte of a character beyond U+007F is.
DecodeHexEscape(t, i) ==
  IF i + 3 > Len(t) /\ Utf8Bytes(t, i) < 4 THEN EofString
  ELSE IF \E j \in i..(i + 3) : j <= Len(t) /\ ~IsHex(t[j]) THEN InvalidEscape
  ELSE Ok(4096 * HexVal(t[i]) + 256 * HexVal(t[i + 1]) + 16 * HexVal(t[i + 2]) + HexVal(t[i + 3]))

IsLeadingSurrogate(n) == n >= 55296 /\ n <= 56319

IsTrailingSurrogate(n) == n >= 56320 /\ n <= 57343

\* The escapes of one character after the backslash, and what they stand for.
EscapeChar(ch) ==
  CASE ch = "b" -> "U+0008"
    [] ch = "f" -> "\f"
    [] ch = "n" -> "\n"
    [] ch = "r" -> "\r"
    [] ch = "t" -> "\t"
    [] OTHER    -> ch

RECURSIVE ParseStr(_, _, _)
RECURSIVE ParseEscape(_, _, _)

\* The second escape of a surrogate pair: n2 is what decode_hex_escape gave
\* at position i, n1 the leading surrogate.
ParseTrailingSurrogate(t, i, acc, n1, n2) ==
  IF n2.tag = "Err" THEN n2
  ELSE IF ~IsTrailingSurrogate(n2.val) THEN LoneSurrogate
  ELSE ParseStr(t, i + 4,
                Append(acc, CharOf(65536 + (n1 - 55296) * 1024 + (n2.val - 56320))))

\* parse_escape, the arm of \u: n is what decode_hex_escape gave for the four
\* digits before position i.
ParseUnicodeEscape(t, i, acc, n) ==
  IF n.tag = "Err" THEN n
  ELSE IF IsTrailingSurrogate(n.val) THEN LoneSurrogate
  ELSE IF ~IsLeadingSurrogate(n.val) THEN ParseStr(t, i, Append(acc, CharOf(n.val)))
  ELSE IF i > Len(t) THEN EofString
  ELSE IF t[i] # "\\" THEN EndOfHexEscape
  ELSE IF i + 1 > Len(t) THEN EofString
  ELSE IF t[i + 1] # "u" THEN EndOfHexEscape
  ELSE ParseTrailingSurrogate(t, i + 2, acc, n.val, DecodeHexEscape(t, i + 2))

\* parse_escape: position i is the character after the backslash.
ParseEscape(t, i, acc) ==
  IF i > Len(t) THEN EofString
  ELSE IF t[i] \in {"\"", "\\", "/", "b", "f", "n", "r", "t"}
    THEN ParseStr(t, i + 1, Append(acc, EscapeChar(t[i])))
  ELSE IF t[i] = "u" THEN ParseUnicodeEscape(t, i + 5, acc, DecodeHexEscape(t, i + 1))
  ELSE InvalidEscape

\* SliceRead::parse_str from position i, after the opening quote: the
\* characters up to the closing quote, unescaped.
ParseStr(t, i, acc) ==
  IF i > Len(t) THEN EofString
  ELSE IF t[i] = "\"" THEN Parsed(acc, i + 1)
  ELSE IF t[i] = "\\" THEN ParseEscape(t, i + 1, acc)
  ELSE IF IsControl(t[i])
    THEN Err("Syntax", "control character (\\u0000-\\u001F) found while parsing a string")
  ELSE ParseStr(t, i + 1, Append(acc, t[i]))

\* Deserializer::parse_ident: the characters of ident have to follow from
\* position i; what is the JSON value then read.
RECURSIVE ParseIdent(_, _, _, _)
ParseIdent(t, i, ident, what) ==
  IF ident = <<>> THEN InvalidType(what)
  ELSE IF i > Len(t) THEN EofValue
  ELSE IF t[i] # Head(ident) THEN Err("Syntax", "expected ident")
  ELSE ParseIdent(t, i + 1, Tail(ident), what)

Digits == {"0", "1", "2", "3", "4", "5", "6", "7", "8", "9"}

\* The first position at or after i that holds no digit.
RECURSIVE ParseDigits(_, _)
ParseDigits(t, i) ==
  IF i <= Len(t) /\ t[i] \in Digits THEN ParseDigits(t, i + 1) ELSE i

\* The digits of a number without its leading zeros.
RECURSIVE Significand(_)
Significand(ds) ==
  IF ds # <<>> /\ Head(ds) = "0" THEN Significand(Tail(ds)) ELSE ds

\* a > b for digit sequences of one length.
RECURSIVE DigitsAbove(_, _)
DigitsAbove(a, b) ==
  IF a = <<>> \/ b = <<>> THEN FALSE
  ELSE IF Head(a) # Head(b) THEN HexVal(Head(a)) > HexVal(Head(b))
  ELSE DigitsAbove(Tail(a), Tail(b))

\* a > b for numbers written without leading zeros.
NumberAbove(a, b) == Len(a) > Len(b) \/ (Len(a) = Len(b) /\ DigitsAbove(a, b))

\* i32::MAX, the limit of the exponent parse_exponent reads.
I32Max == 2147483647

\* i32::saturating_add and i32::saturating_sub for b >= 0.
SaturatingAdd(a, b) == IF a > 0 /\ b > I32Max - a THEN I32Max ELSE a + b

SaturatingSub(a, b) == IF a < 0 /\ b > (a + I32Max) + 1 THEN (-I32Max) - 1 ELSE a - b

U64Max == <<"1","8","4","4","6","7","4","4","0","7","3","7","0","9","5","5","1","6","1","5">>

I64MinAbs == <<"9","2","2","3","3","7","2","0","3","6","8","5","4","7","7","5","8","0","8">>

\* The least significand for which f64_from_parts overflows, by exponent
\* from 289 to 308: f = significand as f64 times POW10[exponent] is infinite
\* from that significand on.  Below exponent 289 no u64 overflows.
F64Limit ==
  << <<"1", "7", "9", "7", "6", "9", "3", "1", "3", "4", "8", "6", "2", "3", "1", "5", "6", "2", "2", "5">>,
     <<"1", "7", "9", "7", "6", "9", "3", "1", "3", "4", "8", "6", "2", "3", "1", "5", "6", "4", "9">>,
     <<"1", "7", "9", "7", "6", "9", "3", "1", "3", "4", "8", "6", "2", "3", "1", "6", "0", "0">>,
     <<"1", "7", "9", "7", "6", "9", "3", "1", "3", "4", "8", "6", "2", "3", "1", "5", "8">>,
     <<"1", "7", "9", "7", "6", "9", "3", "1", "3", "4", "8", "6", "2", "3", "1", "6">>,
     <<"1", "7", "9", "7", "6", "9", "3", "1", "3", "4", "8", "6", "2", "3", "2">>,
     <<"1", "7", "9", "7", "6", "9", "3", "1", "3", "4", "8", "6", "2", "4">>,
     <<"1", "7", "9", "7", "6", "9", "3", "1", "3", "4", "8", "6", "3">>,
     <<"1", "7", "9", "7", "6", "9", "3", "1", "3", "4", "8", "7">>,
     <<"1", "7", "9", "7", "6", "9", "3", "1", "3", "4", "9">>,
     <<"1", "7", "9", "7", "6", "9", "3", "1", "3", "5">>,
     <<"1", "7", "9", "7", "6", "9", "3", "1", "4">>,
     <<"1", "7", "9", "7", "6", "9", "3", "2">>,
     <<"1", "7", "9", "7", "6", "9", "4">>,
     <<"1", "7", "9", "7", "7", "0">>,
     <<"1", "7", "9", "7", "7">>,
     <<"1", "7", "9", "8">>,
     <<"1", "8", "0">>,
     <<"1", "8">>,
     <<"2">> >>

OutOfRange == Err("Syntax", "number out of range")

\* f64_from_parts for the significand sig (its digits, <<>> for zero) and a
\* decimal exponent: beyond POW10 (exponent > 308) a significand other than
\* zero is out of range, and so is a product that is infinite.
F64FromParts(sig, exponent) ==
  IF sig = <<>> THEN InvalidType("floating point")
  ELSE IF exponent > 308 THEN OutOfRange
  ELSE IF exponent >= 289 /\ ~NumberAbove(F64Limit[exponent - 288], sig) THEN OutOfRange
  ELSE InvalidType("floating point")

\* overflow!(significand * 10 + digit, u64::MAX)
Overflows(sig, digit) == NumberAbove(Significand(sig \o <<digit>>), U64Max)

\* Deserializer::parse_exponent_overflow: the exponent does not fit an i32.
\* A significand other than zero with a positive exponent is out of range;
\* otherwise the remaining digits are skipped and the number is the float 0.
ParseExponentOverflow(zeroSignificand, positiveExp) ==
  IF ~zeroSignificand /\ positiveExp THEN OutOfRange
  ELSE InvalidType("floating point")

\* The loop of parse_exponent over the digits at positions k..(j - 1): exp
\* is the value read so far, overflow!(exp * 10 + digit, i32::MAX) ends it,
\* and the final exponent is the starting one plus or minus exp, saturating.
RECURSIVE ParseExponentLoop(_, _, _, _, _, _, _)
ParseExponentLoop(t, k, j, exp, sig, startingExp, positiveExp) ==
  IF k >= j
    THEN F64FromParts(sig, IF positiveExp THEN SaturatingAdd(startingExp, exp)
                           ELSE SaturatingSub(startingExp, exp))
  ELSE IF exp >= I32Max \div 10
          /\ (exp > I32Max \div 10 \/ HexVal(t[k]) > I32Max % 10)
    THEN ParseExponentOverflow(sig = <<>>, positiveExp)
  ELSE ParseExponentLoop(t, k + 1, j, 10 * exp + HexVal(t[k]), sig, startingExp, positiveExp)

\* Deserializer::parse_exponent: position i is the character after e or E,
\* k the position after the sign, if any; sig is the significand read so
\* far and startingExp its decimal exponent.  A digit must follow.
ParseExponentDigits(t, i, k, sig, startingExp) ==
  IF k > Len(t) THEN EofValue
  ELSE IF t[k] \notin Digits THEN InvalidNumber
  ELSE ParseExponentLoop(t, k + 1, ParseDigits(t, k), HexVal(t[k]), sig, startingExp,
                         ~(k > i /\ t[i] = "-"))

ParseExponent(t, i, sig, startingExp) ==
  ParseExponentDigits(t, i, IF i <= Len(t) /\ t[i] \in {"+", "-"} THEN i + 1 ELSE i,
                      sig, startingExp)

\* Deserializer::parse_decimal_overflow: position j is the first one after
\* the digits, which are ignored.
ParseDecimalOverflow(t, j, sig, exponent) ==
  IF j <= Len(t) /\ t[j] \in {"e", "E"} THEN ParseExponent(t, j + 1, sig, exponent)
  ELSE F64FromParts(sig, exponent)

\* Deserializer::parse_decimal from position i, after the point: a digit is
\* taken into the significand while it fits a u64; expBefore is the exponent
\* the integer part left, expAfter minus the number of digits taken.
RECURSIVE ParseDecimal(_, _, _, _, _)
ParseDecimal(t, i, sig, expBefore, expAfter) ==
  IF i <= Len(t) /\ t[i] \in Digits
    THEN IF Overflows(sig, t[i])
           THEN ParseDecimalOverflow(t, ParseDigits(t, i), sig, expBefore + expAfter)
           ELSE ParseDecimal(t, i + 1, Significand(sig \o <<t[i]>>), expBefore, expAfter - 1)
  ELSE IF expAfter = 0 THEN (IF i <= Len(t) THEN InvalidNumber ELSE EofValue)
  ELSE IF i <= Len(t) /\ t[i] \in {"e", "E"}
    THEN ParseExponent(t, i + 1, sig, expBefore + expAfter)
  ELSE F64FromParts(sig, expBefore + expAfter)

\* Deserializer::parse_long_integer: the digits at positions i..(j - 1) do
\* not fit the u64 any more and count as the exponent.
ParseLongInteger(t, i, j, sig) ==
  IF j <= Len(t) /\ t[j] = "." THEN ParseDecimal(t, j + 1, sig, j - i, 0)
  ELSE IF j <= Len(t) /\ t[j] \in {"e", "E"} THEN ParseExponent(t, j + 1, sig, j - i)
  ELSE F64FromParts(sig, j - i)

\* Deserializer::parse_number: position i is the character after the integer
\* digits, sig their value.  Without point and exponent the number is an
\* integer: a u64, or after a minus sign an i64 when it is 1 to 2^63 and the
\* float -(sig as f64) otherwise.
ParseNumber(t, i, sig, positive) ==
  IF i <= Len(t) /\ t[i] = "." THEN ParseDecimal(t, i + 1, sig, 0, 0)
  ELSE IF i <= Len(t) /\ t[i] \in {"e", "E"} THEN ParseExponent(t, i + 1, sig, 0)
  ELSE IF positive THEN InvalidType("integer")
  ELSE IF sig # <<>> /\ ~NumberAbove(sig, I64MinAbs) THEN InvalidType("integer")
  ELSE InvalidType("floating point")

\* The loop of parse_integer from position i: the digits are taken into the
\* significand while it fits a u64.
RECURSIVE ParseIntegerDigits(_, _, _, _)
ParseIntegerDigits(t, i, sig, positive) ==
  IF i <= Len(t) /\ t[i] \in Digits
    THEN IF Overflows(sig, t[i]) THEN ParseLongInteger(t, i, ParseDigits(t, i), sig)
         ELSE ParseIntegerDigits(t, i + 1, sig \o <<t[i]>>, positive)
  ELSE ParseNumber(t, i, sig, positive)

\* Deserializer::parse_integer from position i.
ParseInteger(t, i, positive) ==
  IF i > Len(t) THEN EofValue
  ELSE IF t[i] = "0"
    THEN IF i + 1 <= Len(t) /\ t[i + 1] \in Digits THEN InvalidNumber
         ELSE ParseNumber(t, i + 1, <<>>, positive)
  ELSE IF t[i] \in Digits THEN ParseIntegerDigits(t, i + 1, <<t[i]>>, positive)
  ELSE InvalidNumber

\* Deserializer::peek_invalid_type: the value at position i is not a string.
PeekInvalidType(t, i) ==
  CASE t[i] = "n"     -> ParseIdent(t, i + 1, <<"u", "l", "l">>, "null")
    [] t[i] = "t"     -> ParseIdent(t, i + 1, <<"r", "u", "e">>, "boolean")
    [] t[i] = "f"     -> ParseIdent(t, i + 1, <<"a", "l", "s", "e">>, "boolean")
    [] t[i] = "-"     -> ParseInteger(t, i + 1, FALSE)
    [] t[i] \in Digits -> ParseInteger(t, i, TRUE)
    [] t[i] = "["     -> InvalidType("sequence")
    [] t[i] = "{"     -> InvalidType("map")
    [] OTHER          -> Err("Syntax", "expected value")

\* Deserializer::deserialize_str from position i, after the whitespace.
DeserializeStrAt(t, i) ==
  IF i > Len(t) THEN EofValue
  ELSE IF t[i] = "\"" THEN ParseStr(t, i + 1, <<>>)
  ELSE PeekInvalidType(t, i)

\* String::deserialize(deserializer) on a JSON text
DeserializeString(t) == DeserializeStrAt(t, ParseWhitespace(t, 1))

\* Deserializer::end: only whitespace may follow the value.
DeserializerEnd(t, i) ==
  IF ParseWhitespace(t, i) <= Len(t) THEN Err("Syntax", "trailing characters") ELSE Ok(Unit)

\* serde_json::from_str::<String>: the value of the string literal the text is.
JsonStringEnd(t, s) ==
  IF s.tag = "Err" THEN s
  ELSE IF DeserializerEnd(t, s.next).tag = "Err" THEN DeserializerEnd(t, s.next)
  ELSE Ok(s.val)

JsonParseString(t) == JsonStringEnd(t, DeserializeString(t))

\* Mutant: the regex text is written instead of the raw pattern.
SerializePatternRegex(self) == <<"\"">> \o JsonEscape(self.regex) \o <<"\"">>

\* impl Serialize for PackagePattern, through serde_json::to_string
SerializePattern(self) == <<"\"">> \o JsonEscape(self.pattern) \o <<"\"">>

\* PackagePattern::new(&pattern).map_err(custom) on the string s read from
\* the text, then Deserializer::end.
PatternOfString(t, s, k) ==
  IF k.tag = "Err" THEN Err("Data", k.err)
  ELSE IF DeserializerEnd(t, s.next).tag = "Err" THEN DeserializerEnd(t, s.next)
  ELSE Ok(k)

PatternOfParsed(t, s) ==
  IF s.tag = "Err" THEN s ELSE PatternOfString(t, s, PackagePatternNew(s.val))

\* impl Deserialize for PackagePattern, through serde_json::from_str
DeserializePattern(t) == PatternOfParsed(t, DeserializeString(t))

\* impl Into<String> for PackagePattern
IntoString(self) == self.pattern

\* The raw texts converted: the pattern inputs, and texts with characters
\* JSON escapes.
SerdeInputs ==
  RawInputs \cup
  { <<"\"">>, <<"\\">>, <<"\n">>, <<"a", "\"", "b">>, <<"a", "\\", "b">>,
    <<"\\", "\"">>, <<"\\", "n">>, <<"f", "o", "o", "/", "\n">>, <<"\"", "*", "\"">>,
    <<"\t">>, <<"a", "\r", "\f">>, <<"U+0008", "a">>, <<"U+0001">>, <<"U+001F", "/">>,
    <<" ", "a", " ">>, <<"U+00E9">>, <<"\\", "u", "0", "0", "4", "1">> }

InitSerde ==
  /\ raw \in SerdeInputs
  /\ cand = <<>>
  /\ p = None
  /\ package = None
  /\ res = {}
  /\ rx = None
  /\ str = None
  /\ json = None
  /\ back = None
  /\ composerFile = [kind |-> "missing", text |-> None]
  /\ modifyFile = [kind |-> "missing", text |-> None]
  /\ dryRun = FALSE
  /\ pc = "idle"
  /\ c = None
  /\ m = None
  /\ d = None
  /\ out = <<>>
  /\ ret = None
  /\ printFlag = FALSE
  /\ errOut = <<>>
  /\ cli = NoCli
  /\ reads = {}
  /\ writes = {}
  /\ once = None
  /\ twice = None

\* serde_json::to_string(&p)
SerializeP ==
  /\ p.tag = "Ok"
  /\ json = None
  /\ json' = [tag |-> "Json", text |-> SerializePattern(p)]
  /\ UNCHANGED <<patternVars, str, back>>
  /\ UNCHANGED <<modifyVars, parseVars, fsVars>>
  /\ UNCHANGED removeVars

\* serde_json::from_str::<PackagePattern>(&json)
DeserializeP ==
  /\ json # None
  /\ back = None
  /\ back' = DeserializePattern(json.text)
  /\ UNCHANGED <<patternVars, str, json>>
  /\ UNCHANGED <<modifyVars, parseVars, fsVars>>
  /\ UNCHANGED removeVars

\* let s: String = p.into();   (p is moved)
IntoStringP ==
  /\ p.tag = "Ok"
  /\ str = None
  /\ str' = Some(IntoString(p))
  /\ p' = Moved
  /\ UNCHANGED <<raw, cand, package, res, rx, json, back>>
  /\ UNCHANGED <<modifyVars, parseVars, fsVars>>
  /\ UNCHANGED removeVars

NextSerde == NewPattern \/ SerializeP \/ DeserializeP \/ IntoStringP

SpecSerde == InitSerde /\ [][NextSerde]_vars

(***************************************************************************)
(* fs.rs                                                                   *)
(***************************************************************************)
\* PathAsserts::assert_exists
AssertExists(f) ==
  IF f.kind = "missing" THEN Err("NotFound", "File not found") ELSE Ok(f)

\* PathAsserts::assert_is_file
AssertIsFile(f) ==
  IF f.kind # "file" THEN Err("InvalidInput", "Path is not a file") ELSE Ok(f)

\* Mutant: the two checks in the other order.
GetFilePathIsFileFirst(f) ==
  LET e == AssertIsFile(f)
  IN  IF e.tag = "Err" THEN e ELSE AssertExists(e.val)

\* get_file_path: Path::new(s).assert_exists()?.assert_is_file()
GetFilePath(f) ==
  LET e == AssertExists(f)
  IN  IF e.tag = "Err" THEN e ELSE AssertIsFile(e.val)

\* fs::read_to_string on a regular file: the bytes have to be valid UTF-8
\* and the read itself can fail.
ReadToString(f) ==
  IF f.text.syntax = "notutf8"
    THEN Err("InvalidData", "stream did not contain valid UTF-8")
  ELSE IF f.text.syntax = "ioerror"
    THEN Err("Uncategorized", "Input/output error (os error 5)")
  ELSE Ok(f.text)

\* The result q of get_file_path followed by the read.
ReadPath(q) == IF q.tag = "Err" THEN q ELSE ReadToString(q.val)

\* get_file_contents: fs::read_to_string(get_file_path(file_name)?)
GetFileContents(f) == ReadPath(GetFilePath(f))

\* The paths get_file_contents hands to fs::read_to_string: the `?` returns
\* before the read when get_file_path fails.
FilesRead(path, f) == IF GetFilePath(f).tag = "Err" THEN {} ELSE {path}

\* The paths get_file_contents writes to: the path is checked and read, and
\* nothing else is done with it.
FilesWritten(path, f) == {}

(***************************************************************************)
(* Document shapes and their deserialization (serde derive)                *)
(* A JSON object with a map value is the sequence of its <<key, value>>    *)
(* members in text order; a HashMap is the set of its [k, v] entries.      *)
(***************************************************************************)
\* Mutant: equality that includes the identity of the compiled matcher, which
\* two separately built values never share.
PatternEqByIdentity(a, b) == FALSE

\* impl PartialEq for PackagePattern
PatternEq(a, b) == a.pattern = b.pattern

\* impl Hash for PackagePattern: what is fed to the hasher
PatternHash(a) == a.pattern

\* HashMap<String, String>::insert: a present key keeps its place, its value
\* is overwritten.
StringMapInsert(map, k, v) == {e \in map : e.k # k} \cup {[k |-> k, v |-> v]}

\* HashMap<PackagePattern, VersionConstraint>::insert: the entry with an equal
\* key (same hash, eq) keeps its key and takes the new value.
RequireInsert(map, k, v) ==
  LET same == {e \in map : PatternHash(e.k) = PatternHash(k) /\ PatternEq(e.k, k)}
  IN  IF same = {} THEN map \cup {[k |-> k, v |-> v]}
      ELSE (map \ same) \cup {[k |-> e.k, v |-> v] : e \in same}

\* Deserialize for HashMap<String, String>
RECURSIVE DeserializeStringMap(_, _)
DeserializeStringMap(es, map) ==
  IF es = <<>> THEN map
  ELSE DeserializeStringMap(Tail(es), StringMapInsert(map, Head(es)[1], Head(es)[2]))

\* Deserialize for Require: every key goes through Deserialize for
\* PackagePattern, that is PackagePattern::new(..).map_err(custom).
RECURSIVE DeserializeRequire(_, _)
DeserializeRequire(es, map) ==
  IF es = <<>> THEN Ok(map)
  ELSE LET k == PackagePatternNew(Head(es)[1])
       IN  IF k.tag = "Err" THEN Err("InvalidData", k.err)
           ELSE DeserializeRequire(Tail(es), RequireInsert(map, k, Head(es)[2]))

\* The JSON value null.
Null == [tag |-> "Null"]

\* Deserialize for Option<String>: an absent member and null give None.
DeserializeOption(v) == IF v.tag \in {"None", "Null"} THEN None ELSE Some(v.val)

\* Deserialize for Option<HashMap<String, String>>
DeserializeOptionStringMap(v) ==
  IF v.tag \in {"None", "Null"} THEN None ELSE Some(DeserializeStringMap(v.val, {}))

\* JSON values other than null: a string, a list of strings, a boolean, and
\* an object with one member.
JStr(x) == [tag |-> "Str", val |-> x]

JList(x) == [tag |-> "List", val |-> x]

JBool(x) == [tag |-> "Bool", val |-> x]

JObj(k, v) == [tag |-> "Obj", key |-> k, val |-> v]

\* enum OneOrMany<String> { One(String), Many(Vec<String>) }: the variants
\* and the JSON shape of what each carries.
OneOrManyVariants == [One |-> "Str", Many |-> "List"]

\* enum Abandoned { Toggle(bool), RecommendedAlternative(String) }
AbandonedVariants == [Toggle |-> "Bool", RecommendedAlternative |-> "Str"]

\* Deserialize (derive) for an enum without serde attributes: the externally
\* tagged form.  An object {"Variant": value} gives the variant; a string is
\* read as the name of a unit variant, which these enums do not have; any
\* other value is not an enum.
DeserializeEnum(v, variants) ==
  IF v.tag = "Obj"
    THEN IF v.key \notin DOMAIN variants THEN Err("InvalidData", "unknown variant")
         ELSE IF v.val.tag # variants[v.key] THEN Err("InvalidData", "invalid type")
         ELSE Ok([variant |-> v.key, val |-> v.val.val])
  ELSE IF v.tag = "Str"
    THEN IF v.val \in DOMAIN variants
           THEN Err("InvalidData", "invalid type: unit variant, expected newtype variant")
           ELSE Err("InvalidData", "unknown variant")
  ELSE Err("InvalidData", "expected value")

\* Deserialize for Option<enum>
DeserializeOptionEnum(v, variants) ==
  IF v.tag \in {"None", "Null"} THEN Ok(None)
  ELSE LET e == DeserializeEnum(v, variants)
       IN  IF e.tag = "Err" THEN e ELSE Ok(Some(e.val))

\* Deserialize for Option<Vec<String>>
DeserializeOptionVec(v) ==
  IF v.tag \in {"None", "Null"} THEN Ok(None)
  ELSE IF v.tag = "List" THEN Ok(Some(v.val))
  ELSE Err("InvalidData", "invalid type, expected a sequence")

\* Mutant: a missing name defaults to the empty string (serde(default)).
DeserializeNameDefault(t) == IF t.name.tag = "None" THEN Ok("") ELSE Ok(t.name.val)

\* pub name: String: the member has to be present.
DeserializeName(t) ==
  IF t.name.tag = "None" THEN Err("InvalidData", "missing field name") ELSE Ok(t.name.val)

\* Mutant: a missing require defaults to the empty map (serde(default)).
DeserializePackageLinksDefault(t) ==
  Ok([require |-> IF t.require.tag = "None" THEN {} ELSE DeserializeStringMap(t.require.val, {}),
      require_dev |-> DeserializeOptionStringMap(t.requireDev)])

\* Deserialize (derive) for PackageLinks, flattened into ComposerJson:
\* require has to be present, require-dev (like conflict, replace, provide,
\* suggest) is an Option.
DeserializePackageLinks(t) ==
  IF t.require.tag = "None" THEN Err("InvalidData", "missing field require")
  ELSE Ok([require |-> DeserializeStringMap(t.require.val, {}),
           require_dev |-> DeserializeOptionStringMap(t.requireDev)])

\* serde_json's error for a text that is not JSON: a text that ends too
\* early is an Eof error, which From<serde_json::Error> for io::Error makes
\* UnexpectedEof; every other syntax error is InvalidData.
SyntaxError(t) ==
  IF t.syntax = "eof" THEN Err("UnexpectedEof", "EOF while parsing")
  ELSE Err("InvalidData", "syntax error")

\* What reading the member with key k of the text t gives.
MemberResult(t, k) ==
  CASE k = "license"    -> DeserializeOptionEnum(t.license, OneOrManyVariants)
    [] k = "targetDir"  -> DeserializeOptionVec(t.targetDir)
    [] k = "targetDir2" -> IF t.targetDir2 # None
                             THEN Err("InvalidData", "duplicate field target-dir")
                             ELSE Ok(None)
    [] k = "abandoned"  -> DeserializeOptionEnum(t.abandoned, AbandonedVariants)

\* The error of the first member, in the order of the text, that cannot be
\* read.
RECURSIVE FirstMemberError(_, _)
FirstMemberError(t, order) ==
  IF order = <<>> THEN Ok(Unit)
  ELSE IF MemberResult(t, Head(order)).tag = "Err" THEN MemberResult(t, Head(order))
  ELSE FirstMemberError(t, Tail(order))

\* The ComposerJson built once the members are read: an unreadable member
\* fails the load, then the missing members are settled in the order of
\* their declaration, name before the flattened PackageLinks.
ComposerJsonOf(t, members, name, links) ==
  IF members.tag = "Err" THEN members
  ELSE IF name.tag = "Err" THEN name
  ELSE IF links.tag = "Err" THEN links
  ELSE Ok([name |-> name.val,
           description |-> DeserializeOption(t.description),
           license |-> MemberResult(t, "license").val,
           include_path |-> MemberResult(t, "targetDir").val,
           target_dir |-> None,
           abandoned |-> MemberResult(t, "abandoned").val,
           package_links |-> links.val])

\* serde_json::from_str::<ComposerJson>.  The members are read first, a
\* member of the wrong type failing the load, then the missing members are
\* settled: `name` and the flattened PackageLinks' `require` are not Option
\* and must be present.  Of the Option fields the model carries description,
\* license, include_path, target_dir, abandoned and require-dev.  The key
\* "target-dir" is the serde name of both include_path and target_dir; the
\* derived field matcher takes the first field declared with the key, that is
\* include_path, and "include-path" is no field's key.  targetDir2 is a second
\* "target-dir" member of the text.
\* The members are read in the order of the text (t.order), and the first
\* member that cannot be read is the error of the load.
DeserializeComposerJson(t) ==
  IF t.syntax # "ok" THEN SyntaxError(t)
  ELSE ComposerJsonOf(t, FirstMemberError(t, t.order), DeserializeName(t),
                      DeserializePackageLinks(t))

\* A struct without fields (AddConfig, RemoveConfig, ReplaceConfig).
EmptyStruct == [tag |-> "Struct"]

\* Deserialize (derive) for AddConfig, RemoveConfig and ReplaceConfig as
\* modify_composer_json.rs declares them, `pub struct RemoveConfig {}`: any
\* object gives the empty struct, its members are unknown fields and ignored.
DeserializeEmptyStruct(sec) == Ok(EmptyStruct)

\* Result::map(Some): a present member whose value was read with result r.
OkSome(r) == IF r.tag = "Err" THEN r ELSE Ok(Some(r.val))

\* The ModifyConfig built from the result r of reading its require map.
ModifyConfigOf(r) == IF r.tag = "Err" THEN r ELSE Ok([require |-> Some(r.val)])

\* An empty section struct for a section that is in the text.
Section(sec) ==
  IF sec.tag \in {"None", "Null"} THEN None ELSE Some(DeserializeEmptyStruct(sec.val).val)

\* The ModifyComposerJson built from the text t and the results of reading
\* its modify and its remove section.
ModifyComposerJsonOf(t, modify, remove) ==
  IF modify.tag = "Err" THEN modify
  ELSE IF remove.tag = "Err" THEN remove
  ELSE Ok([modify  |-> modify.val,
           add     |-> Section(t.add),
           remove  |-> remove.val,
           replace |-> Section(t.replace)])

\* Deserialize (derive) for ModifyConfig: require is an Option<Require>
\* (require-dev and config, Options too, are left out of the model).
DeserializeModifyConfig(sec) ==
  IF sec.require.tag \in {"None", "Null"} THEN Ok([require |-> None])
  ELSE ModifyConfigOf(DeserializeRequire(sec.require.val, {}))

\* The modify section of the text t, read as an Option<ModifyConfig>.
ModifySection(t) ==
  IF t.modify.tag \in {"None", "Null"} THEN Ok(None)
  ELSE OkSome(DeserializeModifyConfig(t.modify.val))

\* serde_json::from_str::<ModifyComposerJson> with the four sections as
\* modify_composer_json.rs declares them: this is the type handle_parse loads.
DeserializeModifyComposerJson(t) ==
  IF t.syntax # "ok" THEN SyntaxError(t)
  ELSE ModifyComposerJsonOf(t, ModifySection(t), Ok(Section(t.remove)))

\* A RemoveConfig with the member modify.rs reads, require: Option<Require>.
\* modify_composer_json.rs declares RemoveConfig without it; the member is
\* the one the specification gives the remove section, a map of patterns
\* like the require of ModifyConfig.
DeserializeRemoveConfig(sec) ==
  IF sec.require.tag \in {"None", "Null"} THEN Ok([require |-> None])
  ELSE ModifyConfigOf(DeserializeRequire(sec.require.val, {}))

\* The remove section of the text t, read as an Option of that RemoveConfig.
RemoveSection(t) ==
  IF t.remove.tag \in {"None", "Null"} THEN Ok(None)
  ELSE OkSome(DeserializeRemoveConfig(t.remove.val))

\* The loaded directive mv as modify.rs reads it at `&remove.require`: the
\* remove section with the require member of the directive text t.  The
\* value loaded by the declared type does not hold the member, so it is read
\* from the text the value was loaded from.  A require map with a key that
\* does not compile gives no Require value: the declared type has loaded the
\* section all the same, and the member is read as one without a value.
AsRead(mv, t) ==
  IF RemoveSection(t).tag = "Ok"
    THEN [mv EXCEPT !.remove = RemoveSection(t).val]
    ELSE [mv EXCEPT !.remove = Some([require |-> None])]

(***************************************************************************)
(* parse_handler.rs                                                        *)
(***************************************************************************)
\* ParseFileType::parse::<S>, type naming S
Parse(type, f) ==
  LET contents == GetFileContents(f)
  IN  IF contents.tag = "Err" THEN contents
      ELSE IF type = "ComposerJson" THEN DeserializeComposerJson(contents.val)
      ELSE DeserializeModifyComposerJson(contents.val)

\* ParseFileType::_handle_parse_and_return
HandleParseAndReturn(type, f) ==
  LET r == Parse(type, f)
  IN  IF r.tag = "Ok" THEN Ok(r.val)
      ELSE Err("InvalidInput", <<"error parsing", r.kind, r.msg>>)

(***************************************************************************)
(* modify.rs                                                               *)
(***************************************************************************)
\* The orders in which a HashMap's iter() can yield its entries.
Orderings(S) ==
  {f \in [1..Cardinality(S) -> S] : \A i, j \in 1..Cardinality(S) : i # j => f[i] # f[j]}

\* The require entries of the manifest a pattern of the directive matches.
Matched(cv, require) ==
  {e \in cv.package_links.require :
     \E pe \in require :
        LET k == PackagePatternNew(e.k)
        IN  k.tag = "Ok" /\ PackagePatternMatches(pe.k, k)}

\* Mutant: each call removes one matched entry only.
RemoveRequireOneMatch(cv, require, dry) ==
  IF Matched(cv, require) = {} THEN Ok(cv)
  ELSE Ok([cv EXCEPT !.package_links.require = @ \ {CHOOSE e \in Matched(cv, require) : TRUE}])

\* Mutant: the require map is emptied, whatever the patterns are.
RemoveRequireClear(cv, require, dry) == Ok([cv EXCEPT !.package_links.require = {}])

\* Mutant: a pattern that matches no require key is an error.
RemoveRequireStrict(cv, require, dry) ==
  IF \E pe \in require : Matched(cv, {pe}) = {}
    THEN Err("InvalidInput", "pattern matches no package")
    ELSE Ok(cv)

\* Mutant: the matched keys are removed from require-dev as well.
RemoveRequireAlsoDev(cv, require, dry) ==
  Ok([cv EXCEPT !.package_links.require = @ \ Matched(cv, require),
                !.package_links.require_dev = None])

\* remove_require: prints the directive's and the manifest's entries and
\* returns the manifest it was given.
RemoveRequire(cv, require, dry) == Ok(cv)

\* What {} shows of a PackagePattern.  The source has no Display for it;
\* by the specification the raw string is what a pattern is displayed as.
DisplayPattern(k) == k.pattern

\* The lines remove_require prints: the directive's entries, then the
\* manifest's, each map in an order of its iteration.
RemoveRequireLines(cv, require, rOrd, oOrd) ==
  [i \in 1..Len(rOrd) |-> [tag |-> "R", k |-> DisplayPattern(rOrd[i].k), v |-> rOrd[i].v]]
  \o [i \in 1..Len(oOrd) |-> [tag |-> "O", k |-> oOrd[i].k, v |-> oOrd[i].v]]

\* Mutant: the manifest is written back to its path unless the run is dry.
RemoveFilesWrittenUnlessDry(cv, mv, dry) ==
  IF dry THEN {} ELSE {"composer_json_file_name"}

\* The paths remove and remove_require write to: they print and return the
\* manifest, dry_run is not read and no file is created or opened.
RemoveFilesWritten(cv, mv, dry) == {}

\* Whether remove reaches remove_require.
ReachesRemoveRequire(mv) ==
  mv.remove.tag = "Some" /\ mv.remove.val.require.tag = "Some"

\* remove
Remove(cv, mv, dry) ==
  IF mv.remove.tag = "Some"
    THEN IF mv.remove.val.require.tag = "Some"
           THEN RemoveRequire(cv, mv.remove.val.require.val, dry)
           ELSE Ok(cv)
    ELSE Ok(cv)

(***************************************************************************)
(* handle_modify as a state machine                                        *)
(***************************************************************************)
MaxEntries == 2

MonologMonolog == <<"m","o","n","o","l","o","g","/","m","o","n","o","l","o","g">>

PsrLog == <<"p","s","r","/","l","o","g">>

MonologStar == <<"m","o","n","o","l","o","g","/","*">>

PhpunitPhpunit == <<"p","h","p","u","n","i","t","/","p","h","p","u","n","i","t">>

AcmeMissingPkg == <<"a","c","m","e","/","m","i","s","s","i","n","g","-","p","k","g">>

ManifestEntries == {<<MonologMonolog, "^2.0">>, <<PsrLog, "^1.0">>, <<PsrLog, "^3.0">>}

DirectiveEntries ==
  { <<MonologStar, "">>, <<MonologStar, "*">>, <<PsrLog, "">>, <<AcmeMissingPkg, "">>,
    <<<<"*">>, "">>, <<<<".", "*">>, "">>, <<<<"(">>, "">> }

SeqsUpTo(S, n) == UNION {[1..k -> S] : k \in 0..n}

DevEntries == {<<PhpunitPhpunit, "^9.0">>}

\* Manifest texts: syntactically bad ones, and objects with or without the
\* members name and require, and with the optional members description and
\* require-dev as one of the pairs in opts gives them.
\* The contents of a file that give no document: a text that is not JSON
\* ("bad"), a JSON text that ends too early ("eof"), bytes that are not UTF-8
\* and a file whose read fails.
NoDocument == {"bad", "eof", "notutf8", "ioerror"}

\* The order in which a text has its members license, target-dir (and a
\* second target-dir) and abandoned when it has them in the order in which
\* ComposerJson declares the fields; a rendered text has them so.
TextOrder == <<"license", "targetDir", "targetDir2", "abandoned">>

ManifestTexts(opts) ==
  {[syntax |-> sx, name |-> None, require |-> None, description |-> None,
    requireDev |-> None, license |-> None, abandoned |-> None, targetDir |-> None,
    targetDir2 |-> None, includePath |-> None, order |-> TextOrder] : sx \in NoDocument} \cup
  {[syntax |-> "ok", name |-> n, require |-> r, description |-> o.description,
    requireDev |-> o.requireDev, license |-> o.license, abandoned |-> o.abandoned,
    targetDir |-> o.targetDir, targetDir2 |-> o.targetDir2, includePath |-> o.includePath,
    order |-> o.order] :
     n \in {None, Some("acme/app")},
     o \in opts,
     r \in {None} \cup {Some(es) : es \in SeqsUpTo(ManifestEntries, MaxEntries)}}

\* No optional member is in the text.
NoOptionals ==
  [description |-> None, requireDev |-> None, license |-> None, abandoned |-> None,
   targetDir |-> None, targetDir2 |-> None, includePath |-> None, order |-> TextOrder]

\* The optional members handle_modify is run with: all absent, or description
\* and require-dev present.
ModifyOptionals ==
  { NoOptionals,
    [NoOptionals EXCEPT !.description = Some("A PHP application"),
                        !.requireDev = Some(<<<<PhpunitPhpunit, "^9.0">>>>)] }

\* The optional members handle_parse is run with: description and require-dev
\* absent, null or present; license and abandoned in their plain and in their
\* tagged forms; target-dir as a string, as a list and twice; include-path;
\* a plain license and a plain abandoned together, in both orders.
ParseOptionals ==
  {[NoOptionals EXCEPT !.description = ds, !.requireDev = rd] :
     ds \in {None, Null, Some("A PHP application")},
     rd \in {None} \cup {Some(es) : es \in SeqsUpTo(DevEntries, 1)}}
  \cup {[NoOptionals EXCEPT !.license = v] :
          v \in {JStr("MIT"), JList(<<"MIT", "GPL-3.0-only">>), JObj("One", JStr("MIT")),
                 JObj("Many", JList(<<"MIT", "GPL-3.0-only">>)), JStr("One")}}
  \cup {[NoOptionals EXCEPT !.abandoned = v] :
          v \in {JBool(TRUE), JStr("monolog/monolog"), JObj("Toggle", JBool(TRUE)),
                 JObj("RecommendedAlternative", JStr("monolog/monolog"))}}
  \cup {[NoOptionals EXCEPT !.targetDir = v] :
          v \in {JStr("Symfony/Component/Yaml"), JList(<<"lib/">>)}}
  \cup {[NoOptionals EXCEPT !.includePath = JList(<<"lib/">>)],
        [NoOptionals EXCEPT !.targetDir = JList(<<"lib/">>),
                            !.targetDir2 = JStr("Symfony/Component/Yaml")]}
  \cup {[NoOptionals EXCEPT !.license = JStr("MIT"), !.abandoned = JBool(TRUE),
                             !.order = ord] :
          ord \in {TextOrder, <<"abandoned", "license", "targetDir", "targetDir2">>}}

\* Directive texts handle_modify is run with: syntactically bad ones, and
\* objects with or without a remove section, with or without a require map.
DirectiveTexts ==
  {[syntax |-> sx, modify |-> None, add |-> None, remove |-> None, replace |-> None] :
     sx \in NoDocument} \cup
  {[syntax |-> "ok", modify |-> None, add |-> None, remove |-> r, replace |-> None] :
     r \in {None, Some([require |-> None])} \cup
           {Some([require |-> Some(es)]) : es \in SeqsUpTo(DirectiveEntries, MaxEntries)}} \cup
  {[syntax |-> "ok", modify |-> Some([require |-> Some(<<<<k, "">>>>)]), add |-> None,
    remove |-> None, replace |-> None] : k \in {PsrLog, <<"(">>}}

\* The four sections of a directive.
Sections == {"modify", "add", "remove", "replace"}

\* Directive texts handle_parse is run with: syntactically bad ones, objects
\* with every subset of the sections as empty objects, and objects with one
\* section that has a require map.
DirectiveSectionTexts ==
  {[syntax |-> sx, modify |-> None, add |-> None, remove |-> None, replace |-> None] :
     sx \in NoDocument} \cup
  {[f \in {"syntax"} \cup Sections |->
      IF f = "syntax" THEN "ok" ELSE IF f \in present THEN Some([require |-> None]) ELSE None] :
     present \in SUBSET Sections} \cup
  {[f \in {"syntax"} \cup Sections |->
      IF f = "syntax" THEN "ok" ELSE IF f = sec THEN Some([require |-> Some(es)]) ELSE None] :
     sec \in Sections, es \in SeqsUpTo(DirectiveEntries, MaxEntries)}

NoFile == [kind |-> "missing", text |-> None]

Files(texts) ==
  {NoFile, [kind |-> "dir", text |-> None]} \cup {[kind |-> "file", text |-> t] : t \in texts}

\* The pattern engine is not exercised on its own.
IdlePattern ==
  /\ raw = <<>>
  /\ cand = <<>>
  /\ p = None
  /\ package = None
  /\ res = {}
  /\ rx = None
  /\ str = None
  /\ json = None
  /\ back = None

InitModify ==
  /\ composerFile \in Files(ManifestTexts(ModifyOptionals))
  /\ modifyFile \in Files(DirectiveTexts)
  /\ dryRun \in BOOLEAN
  /\ pc = "start"
  /\ c = None
  /\ m = None
  /\ d = None
  /\ out = <<>>
  /\ ret = None
  /\ printFlag = FALSE
  /\ errOut = <<>>
  /\ cli = NoCli
  /\ reads = {}
  /\ writes = {}
  /\ once = None
  /\ twice = None
  /\ IdlePattern

\* Mutant: the manifest load without the `?`: a failed load falls through to
\* the load of the directive.
LoadComposerJsonFallThrough ==
  /\ pc = "start"
  /\ LET r == HandleParseAndReturn("ComposerJson", composerFile)
     IN  IF r.tag = "Ok"
           THEN c' = r.val /\ ret' = ret
           ELSE c' = c /\ ret' = r
  /\ pc' = "loaded_c"
  /\ reads' = reads \cup FilesRead("composer_json_file_name", composerFile)
  /\ writes' = writes \cup FilesWritten("composer_json_file_name", composerFile)
  /\ UNCHANGED <<composerFile, modifyFile, dryRun, m, d, out>>
  /\ UNCHANGED <<patternVars, serdeVars, parseVars>>
  /\ UNCHANGED removeVars

\* let c = ParseFileType::ComposerJson._handle_parse_and_return(..)?;
LoadComposerJson ==
  /\ pc = "start"
  /\ LET r == HandleParseAndReturn("ComposerJson", composerFile)
     IN  IF r.tag = "Ok"
           THEN c' = r.val /\ pc' = "loaded_c" /\ ret' = ret
           ELSE c' = c /\ pc' = "done" /\ ret' = r
  /\ reads' = reads \cup FilesRead("composer_json_file_name", composerFile)
  /\ writes' = writes \cup FilesWritten("composer_json_file_name", composerFile)
  /\ UNCHANGED <<composerFile, modifyFile, dryRun, m, d, out>>
  /\ UNCHANGED <<patternVars, serdeVars, parseVars>>
  /\ UNCHANGED removeVars

\* let m = ParseFileType::ModifyComposerJson._handle_parse_and_return(..)?;
LoadModifyComposerJson ==
  /\ pc = "loaded_c"
  /\ LET r == HandleParseAndReturn("ModifyComposerJson", modifyFile)
     IN  IF r.tag = "Ok"
           THEN m' = r.val /\ pc' = "loaded_m" /\ ret' = ret
           ELSE m' = m /\ pc' = "done" /\ ret' = r
  /\ reads' = reads \cup FilesRead("modify_file_name", modifyFile)
  /\ writes' = writes \cup FilesWritten("modify_file_name", modifyFile)
  /\ UNCHANGED <<composerFile, modifyFile, dryRun, c, d, out>>
  /\ UNCHANGED <<patternVars, serdeVars, parseVars>>
  /\ UNCHANGED removeVars

\* The `?` of line 13 on the result r of remove: an Err is returned from
\* handle_modify, an Ok value is bound to d.
BindRemoved(r) ==
  IF r.tag = "Ok"
    THEN d' = r.val /\ pc' = "removed" /\ ret' = ret
    ELSE d' = d /\ pc' = "done" /\ ret' = r

\* What remove prints for the manifest cv and the directive mr as it reads
\* it.
PrintRemoved(cv, mr) ==
  IF ReachesRemoveRequire(mr)
    THEN \E rOrd \in Orderings(mr.remove.val.require.val),
            oOrd \in Orderings(cv.package_links.require) :
           out' = out \o RemoveRequireLines(cv, mr.remove.val.require.val, rOrd, oOrd)
    ELSE out' = out

\* let d = remove(c, &m, &dry_run)?;   (c is moved into the call)
RunRemove ==
  /\ pc = "loaded_m"
  /\ BindRemoved(Remove(c, AsRead(m, modifyFile.text), dryRun))
  /\ PrintRemoved(c, AsRead(m, modifyFile.text))
  /\ c' = Moved
  /\ writes' = writes \cup RemoveFilesWritten(c, AsRead(m, modifyFile.text), dryRun)
  /\ UNCHANGED <<composerFile, modifyFile, dryRun, m, reads>>
  /\ UNCHANGED <<patternVars, serdeVars, parseVars>>
  /\ UNCHANGED removeVars

\* Ok(())   (d goes out of scope)
ReturnOk ==
  /\ pc = "removed"
  /\ ret' = Ok(Unit)
  /\ d' = [tag |-> "Dropped"]
  /\ pc' = "done"
  /\ UNCHANGED <<composerFile, modifyFile, dryRun, c, m, out>>
  /\ UNCHANGED <<patternVars, serdeVars, parseVars, fsVars>>
  /\ UNCHANGED removeVars

NextModify == LoadComposerJson \/ LoadModifyComposerJson \/ RunRemove \/ ReturnOk

SpecModify == InitModify /\ [][NextModify]_vars

(***************************************************************************)
(* remove as a function of its arguments: the manifest c, the directive m  *)
(* and dry_run are drawn from the values of their types, remove is applied *)
(* to them, and once more to the manifest it returned.                     *)
(***************************************************************************)
\* The ComposerJson values the manifest texts load as.
Manifests ==
  {DeserializeComposerJson(t).val :
     t \in {x \in ManifestTexts(ModifyOptionals) : DeserializeComposerJson(x).tag = "Ok"}}

\* The Require values: the maps of compiled patterns the key sequences of
\* DirectiveEntries build.
Requires ==
  {DeserializeRequire(es, {}).val :
     es \in {x \in SeqsUpTo(DirectiveEntries, MaxEntries) : DeserializeRequire(x, {}).tag = "Ok"}}

\* The directives remove tells apart: `match &m.remove` with None or
\* Some(remove), then `match &remove.require` with None or Some(require),
\* the require being the &Require remove_require takes.
RemoveDirectives ==
  {[modify |-> None, add |-> None, remove |-> r, replace |-> None] :
     r \in {None, Some([require |-> None])} \cup {Some([require |-> Some(R)]) : R \in Requires}}

InitRemove ==
  /\ c \in Manifests
  /\ m \in RemoveDirectives
  /\ dryRun \in BOOLEAN
  /\ once = None
  /\ twice = None
  /\ composerFile = NoFile
  /\ modifyFile = NoFile
  /\ pc = "idle"
  /\ d = None
  /\ out = <<>>
  /\ ret = None
  /\ printFlag = FALSE
  /\ errOut = <<>>
  /\ cli = NoCli
  /\ reads = {}
  /\ writes = {}
  /\ IdlePattern

\* remove(c, &m, &dry_run)
ApplyRemove ==
  /\ once = None
  /\ once' = Remove(c, m, dryRun)
  /\ PrintRemoved(c, m)
  /\ writes' = writes \cup RemoveFilesWritten(c, m, dryRun)
  /\ UNCHANGED <<composerFile, modifyFile, dryRun, pc, c, m, d, ret, reads, twice>>
  /\ UNCHANGED <<patternVars, serdeVars, parseVars>>

\* remove(c1, &m, &dry_run) for the manifest c1 the first call returned
ApplyRemoveAgain ==
  /\ once # None
  /\ once.tag = "Ok"
  /\ twice = None
  /\ twice' = Remove(once.val, m, dryRun)
  /\ PrintRemoved(once.val, m)
  /\ writes' = writes \cup RemoveFilesWritten(once.val, m, dryRun)
  /\ UNCHANGED <<composerFile, modifyFile, dryRun, pc, c, m, d, ret, reads, once>>
  /\ UNCHANGED <<patternVars, serdeVars, parseVars>>

NextRemove == ApplyRemove \/ ApplyRemoveAgain

SpecRemove == InitRemove /\ [][NextRemove]_vars

(***************************************************************************)
(* Rendering (serde Serialize, serde_json::to_string_pretty) and           *)
(* handle_parse as a state machine                                         *)
(***************************************************************************)
\* Serialize for an Option field with skip_serializing_if = "Option::is_none":
\* None writes no member, Some(x) writes x.
SerializeOption(v) == IF v.tag = "None" THEN None ELSE Some(v.val)

\* Serialize for HashMap<String, String>: the members in the order ord in
\* which the map's iterator yields them.
SerializeStringMap(ord) == [i \in 1..Len(ord) |-> <<ord[i].k, ord[i].v>>]

\* Serialize for Require: each key through Serialize for PackagePattern.
SerializeRequire(ord) == [i \in 1..Len(ord) |-> <<ord[i].k.pattern, ord[i].v>>]

\* The entries of an Option<HashMap>, none for None.
EntriesOf(v) == IF v.tag = "None" THEN {} ELSE v.val

\* Serialize (derive) for an enum without serde attributes: the externally
\* tagged object {"Variant": value}.
SerializeEnum(e, variants) == JObj(e.variant, [tag |-> variants[e.variant], val |-> e.val])

\* Serialize for an Option<enum> field with skip_serializing_if
SerializeOptionEnum(v, variants) ==
  IF v.tag = "None" THEN None ELSE SerializeEnum(v.val, variants)

\* Serialize for ComposerJson (derive): name, the Option fields, and the
\* flattened PackageLinks.  include_path and target_dir are both written
\* under the key "target-dir" (targetDir, targetDir2); no field is written
\* under "include-path".
SerializeComposerJson(cv, rOrd, dOrd) ==
  [syntax      |-> "ok",
   name        |-> Some(cv.name),
   description |-> SerializeOption(cv.description),
   license     |-> SerializeOptionEnum(cv.license, OneOrManyVariants),
   targetDir   |-> IF cv.include_path.tag = "None" THEN None ELSE JList(cv.include_path.val),
   targetDir2  |-> IF cv.target_dir.tag = "None" THEN None ELSE JStr(cv.target_dir.val),
   includePath |-> None,
   abandoned   |-> SerializeOptionEnum(cv.abandoned, AbandonedVariants),
   require     |-> Some(SerializeStringMap(rOrd)),
   requireDev  |-> SerializeOption(
                     IF cv.package_links.require_dev.tag = "None" THEN None
                     ELSE Some(SerializeStringMap(dOrd))),
   order       |-> TextOrder]

\* The entries of modify.require, none when the section or the map is absent.
ModifyPatternsOf(mv) ==
  IF mv.modify.tag = "Some" /\ mv.modify.val.require.tag = "Some"
    THEN mv.modify.val.require.val ELSE {}

\* Serialize (derive) for ModifyComposerJson as declared: each section is an
\* Option with skip_serializing_if; ModifyConfig writes its require map, the
\* structs without fields are written as the empty object.
SerializeModifyComposerJson(mv, ord) ==
  [syntax  |-> "ok",
   modify  |-> SerializeOption(
                 IF mv.modify.tag = "None" THEN None
                 ELSE Some([require |-> SerializeOption(
                              IF mv.modify.val.require.tag = "None" THEN None
                              ELSE Some(SerializeRequire(ord)))])),
   add     |-> SerializeOption(IF mv.add.tag = "None" THEN None ELSE Some([require |-> None])),
   remove  |-> SerializeOption(IF mv.remove.tag = "None" THEN None ELSE Some([require |-> None])),
   replace |-> SerializeOption(IF mv.replace.tag = "None" THEN None ELSE Some([require |-> None]))]

\* Mutant: the document is printed whether print is set or not.
PrintParsedJsonAlways(doc, file, print) ==
  <<[tag |-> "json", file |-> file, doc |-> doc]>>

\* print_parsed_json: the lines it prints to stdout.  to_string_pretty does
\* not fail on these types (every map key is a string).
PrintParsedJson(doc, file, print) ==
  IF print THEN <<[tag |-> "json", file |-> file, doc |-> doc]>> ELSE <<>>

\* Cli::parse(): --config is given or not; the subcommand is one of the two
\* parse subcommands, with its file and print arguments, or is left out.
InitParse ==
  /\ cli \in [config : {None, Some("composer-json-modifier.toml")},
              command : {None, Some("parse composer-json"), Some("parse modify")}]
  /\ \/ /\ cli.command = Some("parse composer-json")
        /\ composerFile \in Files(ManifestTexts(ParseOptionals))
        /\ modifyFile = NoFile
        /\ printFlag \in BOOLEAN
     \/ /\ cli.command = Some("parse modify")
        /\ composerFile = NoFile
        /\ modifyFile \in Files(DirectiveSectionTexts)
        /\ printFlag \in BOOLEAN
     \/ /\ cli.command = None
        /\ composerFile = NoFile
        /\ modifyFile = NoFile
        /\ printFlag = FALSE
  /\ pc = "main"
  /\ out = <<>>
  /\ errOut = <<>>
  /\ reads = {}
  /\ writes = {}
  /\ once = None
  /\ twice = None
  /\ ret = None
  /\ dryRun = FALSE
  /\ c = None
  /\ m = None
  /\ d = None
  /\ IdlePattern

\* main, up to the match on the subcommand: the --config path is printed when
\* one was given; without a subcommand main returns, calling nothing.
MainStart ==
  /\ pc = "main"
  /\ out' = IF cli.config # None
              THEN out \o <<[tag |-> "config", path |-> cli.config.val]>>
              ELSE out
  /\ pc' = IF cli.command # None THEN "start" ELSE "exited"
  /\ UNCHANGED <<composerFile, modifyFile, dryRun, c, m, d, ret, printFlag, errOut, cli>>
  /\ UNCHANGED <<patternVars, serdeVars, fsVars>>
  /\ UNCHANGED removeVars

\* Mutant: the parse result is unwrapped, a failed load panics.
HandleParseComposerJsonUnwrap(r) ==
  /\ pc = "start"
  /\ cli.command = Some("parse composer-json")
  /\ IF r.tag = "Ok"
       THEN /\ out' = out
                        \o <<[tag |-> "successfully parsed", type |-> "composer.json",
                              file |-> "composer_json_file_name"]>>
            /\ errOut' = errOut
            /\ ret' = Ok(Unit)
            /\ pc' = "done"
       ELSE /\ out' = out
            /\ errOut' = errOut \o <<[tag |-> "panicked",
                                      file |-> "composer_json_file_name",
                                      kind |-> r.kind, msg |-> r.msg]>>
            /\ ret' = ret
            /\ pc' = "panicked"
  /\ reads' = reads \cup FilesRead("composer_json_file_name", composerFile)
  /\ writes' = writes \cup FilesWritten("composer_json_file_name", composerFile)
  /\ UNCHANGED <<composerFile, modifyFile, dryRun, c, m, d, printFlag, cli>>
  /\ UNCHANGED <<patternVars, serdeVars>>
  /\ UNCHANGED removeVars

\* _handle_parse::<ComposerJson> on the result r of _handle_parse_and_return:
\* the match on r, after which handle_parse returns Ok(()).
HandleParseComposerJsonOn(r) ==
  /\ pc = "start"
  /\ cli.command = Some("parse composer-json")
  /\ IF r.tag = "Ok"
       THEN /\ \E rOrd \in Orderings(r.val.package_links.require),
                  dOrd \in Orderings(EntriesOf(r.val.package_links.require_dev)) :
                 out' = out
                        \o <<[tag |-> "successfully parsed", type |-> "composer.json",
                              file |-> "composer_json_file_name"]>>
                        \o PrintParsedJson(SerializeComposerJson(r.val, rOrd, dOrd),
                                           "composer_json_file_name", printFlag)
            /\ errOut' = errOut
       ELSE /\ out' = out
            /\ errOut' = errOut \o <<[tag |-> "error parsing",
                                      file |-> "composer_json_file_name",
                                      kind |-> r.kind, msg |-> r.msg]>>
  /\ reads' = reads \cup FilesRead("composer_json_file_name", composerFile)
  /\ writes' = writes \cup FilesWritten("composer_json_file_name", composerFile)
  /\ ret' = Ok(Unit)
  /\ pc' = "done"
  /\ UNCHANGED <<composerFile, modifyFile, dryRun, c, m, d, printFlag, cli>>
  /\ UNCHANGED <<patternVars, serdeVars>>
  /\ UNCHANGED removeVars

\* ParseCommands::ComposerJson: handle_parse -> _handle_parse::<ComposerJson>
HandleParseComposerJson == HandleParseComposerJsonOn(Parse("ComposerJson", composerFile))

\* _handle_parse::<ModifyComposerJson> on the result r of
\* _handle_parse_and_return.
HandleParseModifyOn(r) ==
  /\ pc = "start"
  /\ cli.command = Some("parse modify")
  /\ IF r.tag = "Ok"
       THEN /\ \E ord \in Orderings(ModifyPatternsOf(r.val)) :
                 out' = out
                        \o <<[tag |-> "successfully parsed", type |-> "modify-composer.json",
                              file |-> "modify_file_name"]>>
                        \o PrintParsedJson(SerializeModifyComposerJson(r.val, ord),
                                           "modify_file_name", printFlag)
            /\ errOut' = errOut
       ELSE /\ out' = out
            /\ errOut' = errOut \o <<[tag |-> "error parsing",
                                      file |-> "modify_file_name",
                                      kind |-> r.kind, msg |-> r.msg]>>
  /\ reads' = reads \cup FilesRead("modify_file_name", modifyFile)
  /\ writes' = writes \cup FilesWritten("modify_file_name", modifyFile)
  /\ ret' = Ok(Unit)
  /\ pc' = "done"
  /\ UNCHANGED <<composerFile, modifyFile, dryRun, c, m, d, printFlag, cli>>
  /\ UNCHANGED <<patternVars, serdeVars>>
  /\ UNCHANGED removeVars

\* ParseCommands::Modify: handle_parse -> _handle_parse::<ModifyComposerJson>
HandleParseModify == HandleParseModifyOn(Parse("ModifyComposerJson", modifyFile))

\* main: match handle(c) { Ok(_) => {}, Err(e) => eprintln!("{}", e) }, after
\* which main returns.
MainReturn ==
  /\ pc = "done"
  /\ ret.tag \in {"Ok", "Err"}
  /\ errOut' = IF ret.tag = "Err"
                THEN errOut \o <<[tag |-> "error", file |-> "", kind |-> ret.kind,
                                  msg |-> ret.msg]>>
                ELSE errOut
  /\ pc' = "exited"
  /\ UNCHANGED <<composerFile, modifyFile, dryRun, c, m, d, out, ret, printFlag, cli, reads, writes>>
  /\ UNCHANGED <<patternVars, serdeVars>>
  /\ UNCHANGED removeVars

NextParse == MainStart \/ HandleParseComposerJson \/ HandleParseModify \/ MainReturn

SpecParse == InitParse /\ [][NextParse]_vars

(***************************************************************************)
(* Reference definitions used by the properties                            *)
(***************************************************************************)
\* The glob matcher in which `*` is the only special token.
RECURSIVE GlobMatch(_, _)
GlobMatch(g, s) ==
  IF g = <<>> THEN s = <<>>
  ELSE IF Head(g) = "*"
    THEN GlobMatch(Tail(g), s) \/ (s # <<>> /\ GlobMatch(g, Tail(s)))
  ELSE s # <<>> /\ Head(s) = Head(g) /\ GlobMatch(Tail(g), Tail(s))

NoStar(s) == \A i \in 1..Len(s) : s[i] # "*"

IsPrefix(l, s) == Len(l) <= Len(s) /\ SubSeq(s, 1, Len(l)) = l

StarsBefore(s, i) == Cardinality({j \in 1..(i - 1) : s[j] = "*"})

\* t is `^`, then s with every `*` written `.*`, then `$`, stated by position.
IsAnchoredStarText(t, s) ==
  /\ Len(t) = Len(s) + StarsBefore(s, Len(s) + 1) + 2
  /\ t[1] = "^"
  /\ t[Len(t)] = "$"
  /\ \A i \in 1..Len(s) :
       LET k == 1 + i + StarsBefore(s, i)
       IN  IF s[i] = "*" THEN t[k] = "." /\ t[k + 1] = "*" ELSE t[k] = s[i]

RemoveAt(s, i) == SubSeq(s, 1, i - 1) \o SubSeq(s, i + 1, Len(s))

\* Every run of `*` replaced by one `*`.
RECURSIVE Collapse(_)
Collapse(s) ==
  IF Len(s) < 2 THEN s
  ELSE IF s[1] = "*" /\ s[2] = "*" THEN Collapse(Tail(s))
  ELSE <<Head(s)>> \o Collapse(Tail(s))

\* matches(new(g), new(s)) for a pattern text g and a candidate text s, when
\* both constructions succeed.
MatchOf(g, s) ==
  LET a == PackagePatternNew(g)
      b == PackagePatternNew(s)
  IN  IF a.tag = "Ok" /\ b.tag = "Ok"
        THEN [tag |-> "Ok", val |-> PackagePatternMatches(a, b)]
        ELSE [tag |-> "Err"]

(***************************************************************************)
(* Properties of the pattern engine (specification Spec)                   *)
(***************************************************************************)
\* C1: matches(new(raw), cand) equals the reference glob matcher in which `*`
\* is the only special token and every other character matches verbatim.
C1_GlobSemantics == res # {} => res = {GlobMatch(raw, cand)}

\* C3: a pattern without `*` matches a candidate iff the candidate equals it.
C3_LiteralExactness == (NoStar(raw) /\ res # {}) => res = {cand = raw}

\* C27: matching is reflexive: for every raw text for which new succeeds,
\* the pattern matches its own raw text taken as the candidate.
C27_Reflexive == (cand = raw /\ res # {}) => res = {TRUE}

\* C4: PackagePattern::new never fails, neither for the pattern nor for the
\* candidate that matches takes as a PackagePattern.
C4_Totality == p.tag # "Err" /\ package.tag # "Err"

\* C5: whenever matches is true, the matched span is the whole candidate.
C5_Anchored ==
  TRUE \in res => <<0, Len(cand)>> \in MatchSpans(RegexText(raw), cand)

\* C6: a pattern L* with L free of `*` matches exactly the candidates that
\* start with L, and its regex text is `^` L `.*$`.
C6_WildcardAbsorption ==
  \A l \in {SubSeq(raw, 1, Len(raw) - 1)} :
    (raw # <<>> /\ raw[Len(raw)] = "*" /\ NoStar(l)) =>
       /\ p.tag = "Ok" => p.regex = <<"^">> \o l \o <<".", "*", "$">>
       /\ res # {} => res = {IsPrefix(l, cand)}

\* C7: the empty pattern compiles to `^$`, matches the empty candidate and no
\* other candidate.
C7_EmptyPattern ==
  raw = <<>> =>
    /\ p.tag # "Err"
    /\ p.tag = "Ok" => p.regex = <<"^", "$">>
    /\ rx # None => rx.text = <<"^", "$">>
    /\ res # {} => res = {cand = <<>>}

C7_Witness == raw = <<>> /\ rx # None /\ res = {FALSE}

\* C8: removing one `*` of two consecutive ones, or collapsing every run of
\* `*` into one, changes neither whether the pattern compiles nor what it
\* matches.
C8_ConsecutiveWildcardsCollapse ==
  \A q \in {Collapse(raw)} \cup
           {RemoveAt(raw, i) : i \in {j \in 1..(Len(raw) - 1) : raw[j] = "*" /\ raw[j + 1] = "*"}} :
    /\ p.tag \in {"Ok", "Err"} => PackagePatternNew(q).tag = p.tag
    /\ res # {} => /\ MatchOf(q, cand).tag = "Ok"
                   /\ res = {MatchOf(q, cand).val}

C8_Witness ==
  /\ \E i \in 1..(Len(raw) - 1) : raw[i] = "*" /\ raw[i + 1] = "*"
  /\ Collapse(raw) # <<"*">>
  /\ cand # <<>>
  /\ res = {TRUE}

\* C10: the regex text is `^`, the raw pattern with every `*` written `.*`,
\* `$`; a built pattern keeps its raw text and regex; patterns built from the
\* same raw text carry the same regex; repeated matches calls agree.
C10_DeterministicMatcher ==
  /\ p.tag = "Ok" => p.pattern = raw /\ IsAnchoredStarText(p.regex, raw)
  /\ package.tag = "Ok" => package.pattern = cand /\ IsAnchoredStarText(package.regex, cand)
  /\ rx # None => IsAnchoredStarText(rx.text, raw)
  /\ (p.tag = "Ok" /\ package.tag = "Ok" /\ raw = cand) => p = package
  /\ Cardinality(res) <= 1

C10_Witness ==
  /\ \E i \in 1..Len(raw) : raw[i] = "*"
  /\ rx # None
  /\ p.tag = "Ok"
  /\ package.tag = "Ok"
  /\ res = {TRUE}

(***************************************************************************)
(* Properties of handle_modify and of the loaded directive (SpecModify)    *)
(***************************************************************************)
\* The keys of a section's require map in a directive text.
SectionKeys(sec) ==
  IF sec = None \/ sec.val.require = None THEN {}
  ELSE {sec.val.require.val[i][1] : i \in 1..Len(sec.val.require.val)}

\* The raw pattern compiles.
Compiles(k) == RegexNew(RegexText(k)).ok

\* The manifest and the pattern map handle_modify works on.
LoadedManifest == DeserializeComposerJson(composerFile.text).val

\* The directive as remove reads it.
DirectiveRead == AsRead(m, modifyFile.text)

\* The variable holds a manifest.
Bound(v) == v # None /\ v # Moved /\ v # [tag |-> "Dropped"]

DirectivePatterns(mv) ==
  IF ReachesRemoveRequire(mv) THEN mv.remove.val.require.val ELSE {}

\* Whether the pattern selects the manifest key.
Selects(pattern, key) ==
  LET k == PackagePatternNew(key)
  IN  k.tag = "Ok" /\ PackagePatternMatches(pattern, k)

FilterRequire(require, patterns) ==
  {e \in require : \A pe \in patterns : ~Selects(pe.k, e.k)}

\* C2: the manifest remove returns has exactly the require entries of the
\* loaded manifest that no pattern of remove.require matches.
C2_RemovalIsSetFilter ==
  pc = "removed" =>
    /\ Bound(d)
    /\ d.package_links.require =
         FilterRequire(LoadedManifest.package_links.require, DirectivePatterns(DirectiveRead))

(***************************************************************************)
(* Properties of the pattern's conversions (SpecSerde)                     *)
(***************************************************************************)
\* No character JSON escapes occurs in s.
PlainJson(s) == \A i \in 1..Len(s) : s[i] \notin {"\"", "\\"} /\ ~IsControl(s[i])

\* C11: for a raw text s that new accepts, the String the pattern converts
\* into is s, the serialized text is the JSON string s (s between quotes when
\* s needs no escape), and deserializing that text gives a pattern equal to
\* new(s).
C11_RawRetentionRoundTrip ==
  /\ str # None => str.val = raw
  /\ json # None =>
       /\ JsonParseString(json.text) = Ok(raw)
       /\ PlainJson(raw) => json.text = <<"\"">> \o raw \o <<"\"">>
  /\ back # None =>
       /\ back.tag = "Ok"
       /\ PatternEq(back.val, PackagePatternNew(raw))
       /\ back.val = PackagePatternNew(raw)

C11_Witness ==
  /\ raw = <<"f", "o", "o", "/", "b", "a", "r">>
  /\ str = Some(raw)
  /\ json # None
  /\ json.text = <<"\"", "f", "o", "o", "/", "b", "a", "r", "\"">>
  /\ back.tag = "Ok"
  /\ back.val.pattern = raw

(***************************************************************************)
(* Properties of remove as a function (SpecRemove)                         *)
(***************************************************************************)
\* The directive selects nothing: it has no remove section, the section has
\* no require map, or the map is empty.
SelectsNothing ==
  \/ m.remove = None
  \/ m.remove.val.require = None
  \/ m.remove.val.require.val = {}

\* The pattern entry matches none of the manifest's require keys.
Unmatched(pe) == \A e \in c.package_links.require : ~Selects(pe.k, e.k)

\* C12: remove applied to the manifest the first call returned, with the same
\* directive, returns what the first call returned.
C12_RemovalIdempotent == twice # None => twice = once

C12_Witness ==
  /\ twice # None
  /\ Cardinality(c.package_links.require) = 2
  /\ \E pe \in DirectivePatterns(m) :
        \A e \in c.package_links.require : Selects(pe.k, e.k)

\* C13: when the remove section is absent, its require map is absent or the
\* map is empty, remove returns Ok with a manifest whose require map is the
\* one of the manifest it was given.
C13_IdentityLaw ==
  (once # None /\ SelectsNothing) =>
     /\ once.tag = "Ok"
     /\ once.val.package_links.require = c.package_links.require

C13_Witness ==
  /\ once # None
  /\ m.remove = Some([require |-> Some({})])
  /\ Cardinality(c.package_links.require) = 2

\* C14: for a pattern of the directive that matches no require key of the
\* manifest, remove returns Ok and no entry is gone on the pattern's account:
\* the returned require map has no new entry, and every entry of the given
\* one is in it or is selected by another pattern.
C14_UnmatchedPatternIgnored ==
  once # None =>
    \A pe \in DirectivePatterns(m) :
      Unmatched(pe) =>
        /\ once.tag = "Ok"
        /\ once.val.package_links.require \subseteq c.package_links.require
        /\ \A e \in c.package_links.require :
             \/ e \in once.val.package_links.require
             \/ \E other \in DirectivePatterns(m) \ {pe} : Selects(other.k, e.k)

C14_Witness ==
  /\ once # None
  /\ DirectivePatterns(m) = {[k |-> PackagePatternNew(AcmeMissingPkg), v |-> ""]}
  /\ Cardinality(c.package_links.require) = 2

\* The manifest remove returned equals the one it was given in every field
\* but the require map of its package links.
FrameKept ==
  once # None =>
     /\ once.tag = "Ok"
     /\ DOMAIN once.val = DOMAIN c
     /\ \A f \in DOMAIN c : f # "package_links" => once.val[f] = c[f]
     /\ DOMAIN once.val.package_links = DOMAIN c.package_links
     /\ \A f \in DOMAIN c.package_links :
          f # "require" => once.val.package_links[f] = c.package_links[f]

\* C15: the manifest remove returns equals the given one in every field but
\* require (name, description, require-dev and the others), and no call
\* changes the directive.
C15_FrameOfRemoval == []FrameKept /\ [][m' = m]_vars

C15_Witness ==
  /\ once # None
  /\ \E pe \in DirectivePatterns(m), e \in c.package_links.require : Selects(pe.k, e.k)
  /\ c.description # None
  /\ c.package_links.require_dev = Some({[k |-> PhpunitPhpunit, v |-> "^9.0"]})

(***************************************************************************)
(* Properties of handle_modify's report (SpecModify)                       *)
(***************************************************************************)
\* The distinct keys of a JSON object's members, in the order in which the
\* text first mentions them.
RECURSIVE KeysInOrder(_, _)
KeysInOrder(es, seen) ==
  IF es = <<>> THEN <<>>
  ELSE IF Head(es)[1] \in seen THEN KeysInOrder(Tail(es), seen)
  ELSE <<Head(es)[1]>> \o KeysInOrder(Tail(es), seen \cup {Head(es)[1]})

\* The last value the text gives a key.
ValueOf(es, k) ==
  es[CHOOSE i \in 1..Len(es) : es[i][1] = k /\ \A j \in (i + 1)..Len(es) : es[j][1] # k][2]

\* The report with both maps in the insertion order of their texts.
InsertionOrderReport ==
  LET rEs == modifyFile.text.remove.val.require.val
      oEs == composerFile.text.require.val
      rks == KeysInOrder(rEs, {})
      oks == KeysInOrder(oEs, {})
  IN  [i \in 1..Len(rks) |-> [tag |-> "R", k |-> rks[i], v |-> ValueOf(rEs, rks[i])]]
      \o [i \in 1..Len(oks) |-> [tag |-> "O", k |-> oks[i], v |-> ValueOf(oEs, oks[i])]]

\* C16: the lines remove_require prints are the directive's patterns in the
\* insertion order of the directive text, then the manifest's require keys in
\* the insertion order of the manifest text, on every run.
C16_StableReportOrder ==
  (pc = "removed" /\ ReachesRemoveRequire(DirectiveRead)) => out = InsertionOrderReport

(***************************************************************************)
(* Properties of file access and of handle_modify's failure paths          *)
(***************************************************************************)
\* What get_file_path answers for a path, by the kind of thing at the path.
FileTaxonomy(f) ==
  LET r == GetFilePath(f)
  IN  /\ (r.tag = "Err" /\ r.kind = "NotFound") <=> f.kind = "missing"
      /\ (r.tag = "Err" /\ r.kind = "InvalidInput") <=> f.kind \notin {"missing", "file"}
      /\ r.tag = "Ok" <=> f.kind = "file"
      /\ r.tag = "Ok" => r.val = f
      /\ f.kind # "file" => GetFileContents(f) = r

\* handle_modify got as far as loading the directive file.
DirectiveLoadAttempted == pc \in {"loaded_m", "removed"} \/ (pc = "done" /\ c # None)

\* C19: get_file_path answers Not-found exactly for a missing path, Not-a-file
\* exactly for a path that exists and is no regular file, Ok otherwise; a
\* missing path is never reported as Not-a-file; a file is read exactly when
\* both checks passed, and the error handle_modify returns carries the check's.
C19_FileErrorTaxonomy ==
  /\ FileTaxonomy(composerFile)
  /\ FileTaxonomy(modifyFile)
  /\ pc # "start" =>
       ("composer_json_file_name" \in reads <=> composerFile.kind = "file")
  /\ DirectiveLoadAttempted =>
       ("modify_file_name" \in reads <=> modifyFile.kind = "file")
  /\ (pc = "done" /\ composerFile.kind = "missing") =>
       ret = Err("InvalidInput", <<"error parsing", "NotFound", "File not found">>)
  /\ (pc = "done" /\ composerFile.kind = "dir") =>
       ret = Err("InvalidInput", <<"error parsing", "InvalidInput", "Path is not a file">>)

C19_Witness ==
  /\ pc = "done"
  /\ c # None
  /\ modifyFile.kind = "missing"
  /\ reads = {"composer_json_file_name"}
  /\ ret = Err("InvalidInput", <<"error parsing", "NotFound", "File not found">>)

\* The order of states handle_modify went through: what is loaded, read and
\* run in a state never lacks what the code does before it.
LoadOrderKept ==
  /\ m # None => c # None
  /\ "modify_file_name" \in reads => c # None
  /\ d # None => (m # None /\ c = Moved)
  /\ (pc = "done" /\ c = None) =>
       (m = None /\ d = None /\ "modify_file_name" \notin reads)

\* One step of handle_modify respects the order manifest, directive, remove.
LoadOrderStep ==
  /\ m' # m => (m = None /\ c # None /\ c # Moved /\ c' = c /\ d = None)
  /\ reads' # reads /\ "modify_file_name" \in reads' =>
       (c # None /\ c # Moved /\ d = None /\ "composer_json_file_name" \in reads)
  /\ (d = None /\ d' # None) => (c # None /\ c # Moved /\ m # None /\ c' = Moved)
  /\ d # None => d' \in {d, [tag |-> "Dropped"]}
  /\ c = Moved => c' = Moved

\* C29: handle_modify loads the manifest before the directive and the
\* directive before remove runs; when the manifest load fails the directive
\* file is never read; remove runs at most once and only after both loads
\* succeeded.
C29_LoadOrder == []LoadOrderKept /\ [][LoadOrderStep]_vars

C29_Witness ==
  /\ pc = "done"
  /\ ret = Ok(Unit)
  /\ reads = {"composer_json_file_name", "modify_file_name"}
  /\ m # None
  /\ c = Moved
  /\ d = [tag |-> "Dropped"]
  /\ out # <<>>

\* The manifest file is a regular file whose text is a JSON object with name
\* and require.
ManifestLoads ==
  /\ composerFile.kind = "file"
  /\ composerFile.text.syntax = "ok"
  /\ composerFile.text.name # None
  /\ composerFile.text.require # None

\* The directive file is a regular file whose text is a JSON object in which
\* every key of modify.require, if any, compiles.
DirectiveLoads ==
  /\ modifyFile.kind = "file"
  /\ modifyFile.text.syntax = "ok"
  /\ \A k \in SectionKeys(modifyFile.text.modify) : Compiles(k)

\* C20: when the manifest or the directive fails to load, handle_modify
\* returns Err, remove is never run and prints nothing; the directive is not
\* even read when the manifest failed; no path is ever written.
C20_AllOrNothing ==
  /\ writes = {}
  /\ ~ManifestLoads =>
       /\ pc \in {"start", "done"}
       /\ c = None
       /\ "modify_file_name" \notin reads
  /\ ~(ManifestLoads /\ DirectiveLoads) =>
       /\ pc \in {"start", "loaded_c", "done"}
       /\ m = None
       /\ d = None
       /\ out = <<>>
       /\ pc = "done" => ret.tag = "Err"
  /\ (ManifestLoads /\ DirectiveLoads /\ pc = "done") => ret = Ok(Unit)

C20_Witness ==
  /\ pc = "done"
  /\ ManifestLoads
  /\ modifyFile.kind = "file"
  /\ modifyFile.text.syntax = "ok"
  /\ ~DirectiveLoads
  /\ ret.tag = "Err"
  /\ d = None

(***************************************************************************)
(* Properties of loading and rendering (SpecParse)                         *)
(***************************************************************************)
\* The documents handle_parse has printed for the given path.
Rendered(file) ==
  {out[i].doc : i \in {j \in 1..Len(out) : out[j].tag = "json" /\ out[j].file = file}}

\* The optional members of a manifest text the model carries.
OptionalMembers ==
  {"description", "requireDev", "license", "abandoned", "targetDir", "targetDir2", "includePath"}

\* C17: the text rendered from a loaded manifest loads, to the value the
\* input text loaded to; a member present (and not null) in the input is
\* present in the rendering, and a member absent in the input is absent in
\* the rendering, not null.
C17_DocumentRoundTrip ==
  \A doc \in Rendered("composer_json_file_name") :
     LET t == composerFile.text
     IN  /\ DeserializeComposerJson(t).tag = "Ok"
         /\ DeserializeComposerJson(doc) = DeserializeComposerJson(t)
         /\ doc.name = t.name
         /\ doc.require # None
         /\ \A f \in OptionalMembers :
              /\ (t[f] # None /\ t[f] # Null) => doc[f] # None
              /\ t[f] = None => doc[f] = None
              /\ doc[f] # Null

\* The keys of a rendered map, in the order of the rendering.
RenderedKeys(es) == [i \in 1..Len(es) |-> es[i][1]]

\* C18: in the rendered text the keys of require and require-dev (of
\* modify.require for a directive) come in the order in which the input text
\* first mentions them.
C18_RenderKeepsKeyOrder ==
  /\ \A doc \in Rendered("composer_json_file_name") :
       /\ RenderedKeys(doc.require.val) = KeysInOrder(composerFile.text.require.val, {})
       /\ doc.requireDev # None =>
            RenderedKeys(doc.requireDev.val) = KeysInOrder(composerFile.text.requireDev.val, {})
  /\ \A doc \in Rendered("modify_file_name") :
       (doc.modify # None /\ doc.modify.val.require # None) =>
          RenderedKeys(doc.modify.val.require.val)
            = KeysInOrder(modifyFile.text.modify.val.require.val, {})

(***************************************************************************)
(* Properties of the parse subcommands (SpecParse)                         *)
(***************************************************************************)
\* Whether the file a parse subcommand was given loads.
ParseLoads(file) ==
  IF file = "composer_json_file_name"
    THEN Parse("ComposerJson", composerFile).tag = "Ok"
    ELSE Parse("ModifyComposerJson", modifyFile).tag = "Ok"

\* What the parse subcommand printed to stdout: stdout without main's --config
\* line.
IsParseLine(l) == l.tag # "config"
ParseOut == SelectSeq(out, IsParseLine)

\* The file the parse subcommand handled, read off what it printed.
HandledFiles ==
  {ParseOut[i].file : i \in 1..Len(ParseOut)} \cup {errOut[i].file : i \in 1..Len(errOut)}

\* C21: handle_parse returns for every input and handle_parse_commands
\* returns Ok; a failed load leaves its message on stderr; main has a step to
\* take until it has returned, and it returns without printing a further
\* error.
C21_ErrorsRecoverable ==
  /\ pc \in {"main", "start", "done", "exited"}
  /\ (pc \in {"done", "exited"} /\ cli.command # None) =>
       /\ ret = Ok(Unit)
       /\ \A file \in HandledFiles :
            ~ParseLoads(file) =>
               /\ Len(errOut) = 1
               /\ errOut[1].tag = "error parsing"
               /\ errOut[1].file = file
  /\ pc = "main" => ENABLED MainStart
  /\ pc = "start" =>
       \E rc \in {Parse("ComposerJson", composerFile)},
          rm \in {Parse("ModifyComposerJson", modifyFile)} :
         ENABLED (HandleParseComposerJsonOn(rc) \/ HandleParseModifyOn(rm))
  /\ pc = "done" => ENABLED MainReturn

C21_Witness ==
  /\ pc = "exited"
  /\ composerFile.kind = "file"
  /\ composerFile.text.syntax = "bad"
  /\ ret = Ok(Unit)
  /\ Len(errOut) = 1
  /\ errOut[1].tag = "error parsing"
  /\ ParseOut = <<>>

\* The lines of a sequence with the given tag.
LinesTagged(lines, tag) == {i \in 1..Len(lines) : lines[i].tag = tag}

\* The document kind a confirmation names for a path.
KindNamed(file) ==
  IF file = "composer_json_file_name" THEN "composer.json" ELSE "modify-composer.json"

\* The error the load of a path ends with.
LoadError(file) ==
  IF file = "composer_json_file_name"
    THEN Parse("ComposerJson", composerFile)
    ELSE Parse("ModifyComposerJson", modifyFile)

\* C22: after a parse subcommand, if the file loaded, stdout holds exactly
\* one confirmation, naming the document kind and the file, and the rendered
\* document iff print is set, and stderr is empty; if it did not load, stdout
\* is empty and stderr holds one message naming the file and the cause.
C22_LoadOutcomeVisible ==
  (pc \in {"done", "exited"} /\ cli.command # None) =>
    /\ Cardinality(HandledFiles) = 1
    /\ \A file \in HandledFiles :
         IF ParseLoads(file)
           THEN /\ Cardinality(LinesTagged(ParseOut, "successfully parsed")) = 1
                /\ ParseOut[1] = [tag |-> "successfully parsed", type |-> KindNamed(file),
                             file |-> file]
                /\ Cardinality(LinesTagged(ParseOut, "json")) = IF printFlag THEN 1 ELSE 0
                /\ Len(ParseOut) = IF printFlag THEN 2 ELSE 1
                /\ errOut = <<>>
           ELSE /\ ParseOut = <<>>
                /\ errOut = <<[tag |-> "error parsing", file |-> file,
                               kind |-> LoadError(file).kind, msg |-> LoadError(file).msg]>>

C22_Witness ==
  /\ pc = "done"
  /\ ~printFlag
  /\ modifyFile.kind = "file"
  /\ ParseOut = <<[tag |-> "successfully parsed", type |-> "modify-composer.json",
              file |-> "modify_file_name"]>>
  /\ errOut = <<>>

\* The parse subcommand has handled the manifest file, a regular file whose
\* text is a JSON object.
ManifestObjectHandled ==
  /\ pc \in {"done", "exited"}
  /\ "composer_json_file_name" \in HandledFiles
  /\ composerFile.kind = "file"
  /\ composerFile.text.syntax = "ok"

\* The manifest was reported as loaded.
ManifestConfirmed ==
  /\ LinesTagged(ParseOut, "successfully parsed") # {}
  /\ errOut = <<>>

\* The manifest was reported as not parsed (a data error of the JSON reader).
ManifestParseError ==
  /\ ParseOut = <<>>
  /\ Len(errOut) = 1
  /\ errOut[1].tag = "error parsing"
  /\ errOut[1].kind = "InvalidData"

\* C23: a manifest object without a name member does not load, whatever its
\* other members are: the load ends in a parse error.
C23_NameMandatory ==
  (ManifestObjectHandled /\ composerFile.text.name = None) => ManifestParseError

C23_Witness ==
  /\ ManifestObjectHandled
  /\ composerFile.text.name = None
  /\ composerFile.text.require = Some(<<<<MonologMonolog, "^2.0">>>>)
  /\ composerFile.text.requireDev # None
  /\ errOut = <<[tag |-> "error parsing", file |-> "composer_json_file_name",
                 kind |-> "InvalidData", msg |-> "missing field name"]>>

\* C30: a manifest object loads only if it has both name and require; with
\* name and without require the load ends in a parse error; with name and
\* require and no other member it loads.
C30_RequireRequired ==
  ManifestObjectHandled =>
    LET t == composerFile.text
    IN  /\ ManifestConfirmed => (t.name # None /\ t.require # None)
        /\ (t.name # None /\ t.require = None) => ManifestParseError
        /\ (t.name # None /\ t.require # None /\ \A f \in OptionalMembers : t[f] = None)
             => ManifestConfirmed

C30_Witness ==
  /\ ManifestObjectHandled
  /\ composerFile.text.name # None
  /\ composerFile.text.require = None
  /\ composerFile.text.requireDev = Some(<<<<PhpunitPhpunit, "^9.0">>>>)
  /\ errOut = <<[tag |-> "error parsing", file |-> "composer_json_file_name",
                 kind |-> "InvalidData", msg |-> "missing field require"]>>

\* The manifest text has name and require and, of the optional members, at
\* most the given one.
OnlyOptional(f) ==
  /\ composerFile.text.name # None
  /\ composerFile.text.require # None
  /\ \A g \in OptionalMembers \ {f} : composerFile.text[g] = None

\* C25: a manifest whose license is a JSON string or a JSON list of strings,
\* or whose abandoned is a JSON boolean or a JSON string, loads, into the
\* variant of that shape.
C25_OneOfSeveralShapes ==
  ManifestObjectHandled =>
    LET t == composerFile.text
        loaded == DeserializeComposerJson(t)
    IN  /\ (OnlyOptional("license") /\ t.license.tag = "Str") =>
             /\ ManifestConfirmed
             /\ loaded.tag = "Ok"
             /\ loaded.val.license = Some([variant |-> "One", val |-> t.license.val])
        /\ (OnlyOptional("license") /\ t.license.tag = "List") =>
             /\ ManifestConfirmed
             /\ loaded.tag = "Ok"
             /\ loaded.val.license = Some([variant |-> "Many", val |-> t.license.val])
        /\ (OnlyOptional("abandoned") /\ t.abandoned.tag = "Bool") =>
             /\ ManifestConfirmed
             /\ loaded.tag = "Ok"
             /\ loaded.val.abandoned = Some([variant |-> "Toggle", val |-> t.abandoned.val])
        /\ (OnlyOptional("abandoned") /\ t.abandoned.tag = "Str") =>
             /\ ManifestConfirmed
             /\ loaded.tag = "Ok"
             /\ loaded.val.abandoned
                  = Some([variant |-> "RecommendedAlternative", val |-> t.abandoned.val])

\* C28: a target-dir given as a string loads into target_dir, an include-path
\* loads into include_path, and no rendering has the key target-dir twice.
C28_DistinctJsonKeys ==
  ManifestObjectHandled =>
    LET t == composerFile.text
        loaded == DeserializeComposerJson(t)
    IN  /\ (OnlyOptional("targetDir") /\ t.targetDir.tag = "Str") =>
             /\ ManifestConfirmed
             /\ loaded.tag = "Ok"
             /\ loaded.val.target_dir = Some(t.targetDir.val)
             /\ loaded.val.include_path = None
        /\ (OnlyOptional("includePath") /\ t.includePath.tag = "List") =>
             /\ ManifestConfirmed
             /\ loaded.tag = "Ok"
             /\ loaded.val.include_path = Some(t.includePath.val)
        /\ \A doc \in Rendered("composer_json_file_name") :
             doc.targetDir = None \/ doc.targetDir2 = None

\* The parse subcommand has handled the directive file, a regular file whose
\* text is a JSON object.
DirectiveObjectHandled ==
  /\ pc \in {"done", "exited"}
  /\ "modify_file_name" \in HandledFiles
  /\ modifyFile.kind = "file"
  /\ modifyFile.text.syntax = "ok"

\* The directive was reported as loaded.
DirectiveConfirmed ==
  /\ LinesTagged(ParseOut, "successfully parsed") # {}
  /\ errOut = <<>>

\* C24: a directive with any subset of the sections modify, add, remove,
\* replace loads, a section absent in the text being absent in the loaded
\* value; and a require map of patterns under remove is in the loaded value,
\* where the applier reads it (remove.require).
C24_SectionsOptional ==
  DirectiveObjectHandled =>
    LET t == modifyFile.text
        loaded == DeserializeModifyComposerJson(t)
    IN  /\ (\A sec \in Sections : SectionKeys(t[sec]) = {}) =>
             /\ DirectiveConfirmed
             /\ loaded.tag = "Ok"
             /\ \A sec \in Sections : loaded.val[sec] = None <=> t[sec] = None
        /\ (t.remove # None /\ t.remove.val.require # None
              /\ \A k \in SectionKeys(t.remove) : Compiles(k)) =>
             /\ DirectiveConfirmed
             /\ loaded.tag = "Ok"
             /\ loaded.val.remove # None
             /\ "require" \in DOMAIN loaded.val.remove.val
             /\ {e.k.pattern : e \in loaded.val.remove.val.require.val}
                  = SectionKeys(t.remove)

\* The JSON string literal of a raw text.
JsonStringOf(k) == <<"\"">> \o JsonEscape(k) \o <<"\"">>

\* The keys of the pattern maps of a directive text: the require of each of
\* its sections.
PatternKeys(t) == UNION {SectionKeys(t[sec]) : sec \in Sections}

\* C26: when a key of one of a directive's pattern maps (the require of its
\* modify, add, remove or replace section) does not compile, deserializing
\* that key as a PackagePattern fails and the load of the directive ends in a
\* parse error: nothing is confirmed or rendered.
C26_UncompilablePatternIsParseError ==
  (DirectiveObjectHandled /\ \E k \in PatternKeys(modifyFile.text) : ~Compiles(k)) =>
     /\ \A k \in PatternKeys(modifyFile.text) :
          ~Compiles(k) => DeserializePattern(JsonStringOf(k)).tag = "Err"
     /\ DeserializeModifyComposerJson(modifyFile.text).tag = "Err"
     /\ ParseOut = <<>>
     /\ Len(errOut) = 1
     /\ errOut[1].tag = "error parsing"
     /\ errOut[1].kind = "InvalidData"

\* C9: patterns are equal iff their raw texts are, equal patterns hash alike,
\* and the loaded Require map (modify.require) holds one entry per distinct
\* raw key of the text.
C9_EqualityIsRawBased ==
  (DirectiveObjectHandled /\ modifyFile.text.modify # None
     /\ modifyFile.text.modify.val.require # None
     /\ DeserializeModifyComposerJson(modifyFile.text).tag = "Ok") =>
    LET map == DeserializeModifyComposerJson(modifyFile.text).val.modify.val.require.val
        keys == SectionKeys(modifyFile.text.modify)
    IN  /\ \A k1, k2 \in keys :
             LET a == PackagePatternNew(k1)
                 b == PackagePatternNew(k2)
             IN  /\ PatternEq(a, b) <=> k1 = k2
                 /\ PatternEq(a, b) => PatternHash(a) = PatternHash(b)
        /\ \A e1, e2 \in map : PatternEq(e1.k, e2.k) => e1 = e2
        /\ {e.k.pattern : e \in map} = keys
        /\ Cardinality(map) = Cardinality(keys)

C9_Witness ==
  /\ DirectiveObjectHandled
  /\ DirectiveConfirmed
  /\ modifyFile.text.modify = Some([require |-> Some(<<<<MonologStar, "">>, <<MonologStar, "*">>>>)])
  /\ DeserializeModifyComposerJson(modifyFile.text).val.modify.val.require.val
       = {[k |-> PackagePatternNew(MonologStar), v |-> "*"]}

=============================================================================
